---- MODULE Spec2Model ----
(***************************************************************************)
(* X4 ShipMatrix: the localisation resolver (src/src/language_detector.py, *)
(* src/src/data_parser.py), the ship extractor (load_ship_data) and the    *)
(* travel-speed and cargo-ratio arithmetic of the stats views              *)
(* (src/development/app/logic.py, src/src/gui.py).                         *)
(*                                                                         *)
(* Python strings that the code takes apart or compares piecewise are      *)
(* sequences of string chunks (<<"{", "1001", ",", "1", "}">>); strings    *)
(* that are only compared whole (file names, paths) are TLA+ strings.      *)
(* Optional[int] None is NoneId; an absent string is the string "None".    *)
(***************************************************************************)
EXTENDS Integers, Sequences, FiniteSets, TLC

VARIABLES
    cached,      \* language_detector._cached_language_id
    override,    \* language_detector._user_override
    table,       \* data_parser.TEXT_MAPPINGS
    curfile,     \* data_parser.CURRENT_LANGUAGE_FILE
    configs,     \* environment: the game's config.xml files, by path
    steamReg,    \* environment: HKCU\Software\Valve\Steam "Language"
    sysLocale,   \* environment: locale.getdefaultlocale()[0]
    fs,          \* environment: the translation files, by path
    call,        \* the last completed call: operation, argument, result
    pre,         \* the program state in which the last call was made
    units,       \* environment: the assets/units tree under each data root
    engines_df,  \* the engine table handed to load_ship_data
    ships_df,    \* the table load_ship_data returned last
    ship_raised, \* the exception the last load_ship_data raised, or "None"
    loads,       \* load_ship_data calls made
    calc,        \* the stats views: the selected rows and what was computed last
    gen,         \* the assets/props tree, and the full loads made and their tables
    sto,         \* a ship macro file, the storage files around it, and what
                 \* extract_storage_info returned for it
    wpn          \* the weapon generator: its input files and its tables

langvars == <<cached, override, table, curfile, configs, steamReg, sysLocale, fs, call, pre>>

shipvars == <<units, engines_df, ships_df, ship_raised, loads>>

vars == <<langvars, shipvars, calc, gen, sto, wpn>>

-----------------------------------------------------------------------------
(* language_detector.py: constants *)

NoneId == 0

BaselineId == 44

RussianId == 7

GermanId == 49

\* X4_LANGUAGE_MAP, restricted to three of its sixteen ids
X4_LANGUAGE_MAP == (RussianId :> "Russian") @@ (BaselineId :> "English") @@ (GermanId :> "German")

Langs == DOMAIN X4_LANGUAGE_MAP

\* LOCALE_TO_X4_MAP, restricted to the keys of the modelled languages
LOCALE_TO_X4_MAP ==
    ("en" :> BaselineId) @@ ("en_US" :> BaselineId) @@
    ("de" :> GermanId) @@ ("de_DE" :> GermanId) @@ ("de_AT" :> GermanId) @@
    ("ru" :> RussianId) @@ ("ru_RU" :> RussianId)

\* steam_to_x4 of detect_steam_language, restricted likewise
steam_to_x4 == ("english" :> BaselineId) @@ ("german" :> GermanId) @@ ("russian" :> RussianId)

\* str.lower() on the registry values the model draws
Lower(s) ==
    CASE s = "German" -> "german"
      [] s = "RUSSIAN" -> "russian"
      [] OTHER -> s

\* int(text) on the config texts the model draws: [ok, value]
ParseInt(s) ==
    CASE s = "7" -> [ok |-> TRUE, value |-> 7]
      [] s = "44" -> [ok |-> TRUE, value |-> 44]
      [] s = " 49 " -> [ok |-> TRUE, value |-> 49]
      [] s = "99" -> [ok |-> TRUE, value |-> 99]
      [] s = "0" -> [ok |-> TRUE, value |-> 0]
      [] OTHER -> [ok |-> FALSE, value |-> 0]

NoPath == "None"

InstallPath == "X4"

\* config_paths of detect_x4_game_language, in order
config_paths(x4_install_path) ==
    << x4_install_path \o "/config.xml",
       "~/Documents/Egosoft/X4/config.xml",
       "~/Documents/Egosoft/X4 Foundations/config.xml" >>

ConfigMissing == [kind |-> "missing", text |-> ""]

ConfigUnparsable == [kind |-> "unparsable", text |-> ""]

ConfigNoLang == [kind |-> "nolang", text |-> ""]

ConfigLang(t) == [kind |-> "lang", text |-> t]

\* the body of the for loop over config_paths: the id found from position i on
RECURSIVE ScanConfigs(_, _, _)
ScanConfigs(cfgs, paths, i) ==
    IF i > Len(paths) THEN NoneId
    ELSE LET f == cfgs[paths[i]]
             n == ParseInt(f.text)
         IN IF f.kind = "lang" /\ f.text # "" /\ n.ok /\ n.value \in Langs
            THEN n.value
            ELSE ScanConfigs(cfgs, paths, i + 1)

detect_x4_game_language(cfgs, x4_install_path) ==
    ScanConfigs(cfgs, config_paths(x4_install_path), 1)

\* reg is the registry value, or "<nokey>" when OpenKey/QueryValueEx raises
detect_steam_language(reg) ==
    IF reg = "<nokey>" THEN NoneId
    ELSE IF Lower(reg) \in DOMAIN steam_to_x4 THEN steam_to_x4[Lower(reg)]
    ELSE NoneId

\* loc is <<language, region>> (region "" when the locale has none), <<>> for
\* no locale, or <<"raise">> when locale.getdefaultlocale() raises
LocaleName(loc) == IF loc[2] = "" THEN loc[1] ELSE loc[1] \o "_" \o loc[2]

detect_system_language(loc) ==
    IF loc = <<>> \/ loc = <<"raise">> THEN BaselineId
    ELSE IF LocaleName(loc) \in DOMAIN LOCALE_TO_X4_MAP THEN LOCALE_TO_X4_MAP[LocaleName(loc)]
    ELSE IF loc[1] \in DOMAIN LOCALE_TO_X4_MAP THEN LOCALE_TO_X4_MAP[loc[1]]
    ELSE BaselineId

\* lines 181-200 of get_language_id: the detection chain, without the cache
AutoDetect(cfgs, reg, loc, x4_install_path) ==
    LET x4_lang == IF x4_install_path # NoPath
                   THEN detect_x4_game_language(cfgs, x4_install_path)
                   ELSE NoneId
        steam_lang == detect_steam_language(reg)
    IN IF x4_lang # NoneId THEN x4_lang
       ELSE IF steam_lang # NoneId THEN steam_lang
       ELSE detect_system_language(loc)

\* get_language_id that returns the override and caches the English default
get_language_id_caches_default(c, o, cfgs, reg, loc, x4_install_path) ==
    IF c # NoneId THEN [ret |-> c, cached |-> c]
    ELSE IF o # NoneId THEN [ret |-> o, cached |-> BaselineId]
    ELSE LET a == AutoDetect(cfgs, reg, loc, x4_install_path)
         IN [ret |-> a, cached |-> a]

\* get_language_id: [ret, cached], the id returned and the cache afterwards
get_language_id(c, o, cfgs, reg, loc, x4_install_path) ==
    IF c # NoneId THEN [ret |-> c, cached |-> c]
    ELSE IF o # NoneId THEN [ret |-> o, cached |-> o]
    ELSE LET a == AutoDetect(cfgs, reg, loc, x4_install_path)
         IN [ret |-> a, cached |-> a]

\* set_user_override that forgets to clear the cache
set_user_override_keeps_cache(c, o, language_id) ==
    IF language_id \in Langs
    THEN [override |-> language_id, cached |-> c, raised |-> "None"]
    ELSE [override |-> o, cached |-> c, raised |-> "ValueError"]

\* set_user_override that clears the cache before it looks at the id
set_user_override_clears_first(c, o, language_id) ==
    IF language_id \in Langs
    THEN [override |-> language_id, cached |-> NoneId, raised |-> "None"]
    ELSE [override |-> o, cached |-> NoneId, raised |-> "ValueError"]

\* set_user_override: [override, cached, raised]
set_user_override(c, o, language_id) ==
    IF language_id \in Langs
    THEN [override |-> language_id, cached |-> NoneId, raised |-> "None"]
    ELSE [override |-> o, cached |-> c, raised |-> "ValueError"]

\* clear_user_override: [override, cached]
clear_user_override(c, o) == [override |-> NoneId, cached |-> NoneId]

\* f"{language_id}": the width and fill left out
Pad3Unpadded(n) == ToString(n)

\* f"{language_id:03d}"
Pad3(n) ==
    IF n < 10 THEN "00" \o ToString(n)
    ELSE IF n < 100 THEN "0" \o ToString(n)
    ELSE ToString(n)

\* get_language_file_name with an explicit id
get_language_file_name(language_id) == "0001-l" \o Pad3(language_id) \o ".xml"

\* get_language_name with an explicit id
get_language_name(language_id) ==
    IF language_id \in Langs THEN X4_LANGUAGE_MAP[language_id]
    ELSE "Unknown (ID: " \o ToString(language_id) \o ")"

-----------------------------------------------------------------------------
(* data_parser.py: the text-mapping table *)

DATA_PATHS == <<"data", "build_scripts/data">>

FileMissing == [kind |-> "missing", root |-> "", pages |-> <<>>]

FileUnparsable == [kind |-> "unparsable", root |-> "", pages |-> <<>>]

Exists(files, path) == path \in DOMAIN files /\ files[path].kind # "missing"

\* find_data_path: the first existing base_path / relative_path, else "None"
RECURSIVE FindFrom(_, _, _)
FindFrom(files, relative_path, i) ==
    IF i > Len(DATA_PATHS) THEN "None"
    ELSE IF Exists(files, DATA_PATHS[i] \o "/" \o relative_path)
         THEN DATA_PATHS[i] \o "/" \o relative_path
         ELSE FindFrom(files, relative_path, i + 1)

find_data_path(files, relative_path) == FindFrom(files, relative_path, 1)

EmptyMap == << >>

IsEmptyMap(m) == DOMAIN m = {}

\* str.strip() on a chunk sequence: blanks off both ends
RECURSIVE LStrip(_)
LStrip(s) == IF s # <<>> /\ Head(s) = " " THEN LStrip(Tail(s)) ELSE s

RECURSIVE RStrip(_)
RStrip(s) == IF s # <<>> /\ s[Len(s)] = " " THEN RStrip(SubSeq(s, 1, Len(s) - 1)) ELSE s

Strip(s) == RStrip(LStrip(s))

\* .replace("\\(", "(").replace("\\)", ")")
RECURSIVE Unescape(_)
Unescape(s) ==
    IF Len(s) < 2 THEN s
    ELSE IF s[1] = "\\" /\ s[2] \in {"(", ")"}
         THEN <<s[2]>> \o Unescape(SubSeq(s, 3, Len(s)))
         ELSE <<s[1]>> \o Unescape(Tail(s))

\* f"{{{page_id},{text_id}}}"
TextKey(page_id, text_id) == <<"{", page_id, ",", text_id, "}">>

\* TEXT_MAPPINGS[key] = clean_value
DictSet(m, key, value) == (key :> value) @@ m

\* the inner loop, for text_entry in page.findall("t"), from entry j on
RECURSIVE StoreTexts(_, _, _, _)
StoreTexts(m, page_id, ts, j) ==
    IF j > Len(ts) THEN m
    ELSE LET e == ts[j]
             m2 == IF e.id # ""
                   THEN DictSet(m, TextKey(page_id, e.id), Unescape(Strip(e.text)))
                   ELSE m
         IN StoreTexts(m2, page_id, ts, j + 1)

\* the outer loop, for page in root.findall(".//page"), from page i on
RECURSIVE StorePages(_, _, _)
StorePages(m, pages, i) ==
    IF i > Len(pages) THEN m
    ELSE LET p == pages[i]
             m2 == IF p.id # "" THEN StoreTexts(m, p.id, p.ts, 1) ELSE m
         IN StorePages(m2, pages, i + 1)

\* the clear left out: the new entries are patched into the old table
KeepMappings(m) == m

\* TEXT_MAPPINGS.clear()
ClearMappings(m) == EmptyMap

\* the early return taken for any loaded table, whatever its language
AlreadyLoadedAnyLanguage(tbl, cur, lang_file) == ~IsEmptyMap(tbl)

\* if TEXT_MAPPINGS and CURRENT_LANGUAGE_FILE == lang_file
AlreadyLoaded(tbl, cur, lang_file) == ~IsEmptyMap(tbl) /\ cur = lang_file

\* load_text_mappings: [cached, table, curfile, outcome, lang_name]
load_text_mappings(c, o, tbl, cur, cfgs, reg, loc, files) ==
    LET g == get_language_id(c, o, cfgs, reg, loc, NoPath)
        lang_file == get_language_file_name(g.ret)
        lang_name == get_language_name(g.ret)
        first == find_data_path(files, "t/" \o lang_file)
        fallback_file == find_data_path(files, "t/0001-l044.xml")
        text_file == IF first # "None" THEN first ELSE fallback_file
        shown == IF first = "None" /\ fallback_file # "None"
                 THEN "English (fallback)" ELSE lang_name
        t0 == ClearMappings(tbl)
        out(t, f, what) == [cached |-> g.cached, table |-> t, curfile |-> f,
                            outcome |-> what, lang_name |-> shown]
    IN IF AlreadyLoaded(tbl, cur, lang_file)
       THEN [cached |-> g.cached, table |-> tbl, curfile |-> cur,
             outcome |-> "already", lang_name |-> lang_name]
       ELSE IF text_file = "None" THEN out(t0, cur, "nofile")
       ELSE IF files[text_file].kind = "unparsable" THEN out(t0, cur, "parseerror")
       ELSE IF files[text_file].root # "language" THEN out(t0, cur, "invalid")
       ELSE out(StorePages(t0, files[text_file].pages, 1), lang_file, "loaded")

\* TEXT_MAPPINGS.get(text_ref, ""): an empty string for an unknown reference
DictGetOrEmpty(m, key, default) == IF key \in DOMAIN m THEN m[key] ELSE <<>>

\* TEXT_MAPPINGS.get(text_ref, text_ref)
DictGet(m, key, default) == IF key \in DOMAIN m THEN m[key] ELSE default

\* resolve_text_reference_advanced: [cached, table, curfile, outcome, ret]
resolve_text_reference_advanced(c, o, tbl, cur, cfgs, reg, loc, files, text_ref) ==
    LET Lookup(l) ==
            [cached |-> l.cached, table |-> l.table, curfile |-> l.curfile,
             outcome |-> l.outcome, ret |-> DictGet(l.table, text_ref, text_ref)]
    IN Lookup(IF IsEmptyMap(tbl)
              THEN load_text_mappings(c, o, tbl, cur, cfgs, reg, loc, files)
              ELSE [cached |-> c, table |-> tbl, curfile |-> cur,
                    outcome |-> "noload", lang_name |-> ""])

\* refresh_text_mappings: as load_text_mappings, after clearing both globals
refresh_text_mappings(c, o, tbl, cur, cfgs, reg, loc, files) ==
    load_text_mappings(c, o, ClearMappings(tbl), "None", cfgs, reg, loc, files)

\* get_current_language_info: [cached, ret]
get_current_language_info(c, o, tbl, cur, cfgs, reg, loc) ==
    LET g == get_language_id(c, o, cfgs, reg, loc, NoPath)
        g2 == get_language_id(g.cached, o, cfgs, reg, loc, NoPath)
    IN [cached |-> g2.cached,
        ret |-> [language_id |-> g.ret,
                 language_name |-> get_language_name(g2.ret),
                 language_file |-> IF cur # "None" THEN cur ELSE "Not loaded",
                 mapping_count |-> Cardinality(DOMAIN tbl)]]

-----------------------------------------------------------------------------
(* data_parser.py: display names.  txt is the text state the resolver reads  *)
(* and lazily builds, [cached, table, curfile]; env is what it builds from,  *)
(* [override, configs, steamReg, sysLocale, fs].                             *)

\* resolve_text_reference_advanced on a text state: [txt, ret]
Resolve(txt, env, text_ref) ==
    LET Of(r) == [txt |-> [cached |-> r.cached, table |-> r.table, curfile |-> r.curfile],
                  ret |-> r.ret]
    IN Of(resolve_text_reference_advanced(txt.cached, env.override, txt.table,
              txt.curfile, env.configs, env.steamReg, env.sysLocale, env.fs, text_ref))

\* str.startswith(c) and str.endswith(c) for a one-character c
StartsWith(s, c) == s # <<>> /\ s[1] = c

EndsWith(s, c) == s # <<>> /\ s[Len(s)] = c

\* the index of the first c in s at or after position i, 0 when there is none
RECURSIVE FirstIndex(_, _, _)
FirstIndex(s, c, i) ==
    IF i > Len(s) THEN 0
    ELSE IF s[i] = c THEN i
    ELSE FirstIndex(s, c, i + 1)

\* str.split(): the runs between blanks, empty runs dropped
RECURSIVE Split(_)
Split(s) ==
    LET t == LStrip(s)
        b == FirstIndex(t, " ", 1)
    IN IF t = <<>> THEN <<>>
       ELSE IF b = 0 THEN <<t>>
       ELSE <<SubSeq(t, 1, b - 1)>> \o Split(SubSeq(t, b + 1, Len(t)))

\* "".join(parts): the separator left out
RECURSIVE JoinNoSeparator(_)
JoinNoSeparator(parts) ==
    IF parts = <<>> THEN <<>>
    ELSE Head(parts) \o JoinNoSeparator(Tail(parts))

\* " ".join(parts)
RECURSIVE Join(_)
Join(parts) ==
    IF parts = <<>> THEN <<>>
    ELSE IF Len(parts) = 1 THEN parts[1]
    ELSE parts[1] \o <<" ">> \o Join(Tail(parts))

\* lines 147-152 of construct_ship_name, from token i on: [txt, variations]
RECURSIVE ResolveVariations(_, _, _, _, _)
ResolveVariations(txt, env, refs, i, variations) ==
    IF i > Len(refs) THEN [txt |-> txt, variations |-> variations]
    ELSE LET ref == Strip(refs[i])
             Rest(r) == ResolveVariations(r.txt, env, refs, i + 1,
                            IF ~StartsWith(r.ret, "{") THEN Append(variations, r.ret)
                            ELSE variations)
         IN IF StartsWith(ref, "{") /\ EndsWith(ref, "}")
            THEN Rest(Resolve(txt, env, ref))
            ELSE ResolveVariations(txt, env, refs, i + 1, variations)

\* lines 138-158 of construct_ship_name, b the resolved basename: [txt, isnone, ret]
WithVariations(env, variation_refs, b) ==
    LET Named(basename, v) ==
            [txt |-> v.txt, isnone |-> FALSE,
             ret |-> IF v.variations # <<>>
                     THEN basename \o <<" ">> \o Join(v.variations)
                     ELSE basename]
    IN Named(IF StartsWith(b.ret, "{") THEN <<"Ship", " ">> \o b.ret ELSE b.ret,
             IF variation_refs # <<>>
             THEN ResolveVariations(b.txt, env, Split(variation_refs), 1, <<>>)
             ELSE [txt |-> b.txt, variations |-> <<>>])

\* construct_ship_name: [txt, isnone, ret]; isnone when None is returned
construct_ship_name(txt, env, basename_ref, variation_refs) ==
    IF basename_ref = <<>> THEN [txt |-> txt, isnone |-> TRUE, ret |-> <<>>]
    ELSE WithVariations(env, variation_refs, Resolve(txt, env, basename_ref))

\* re.findall(r'\{[^}]+\}', s), scanning from position i
RECURSIVE FindRefs(_, _)
FindRefs(s, i) ==
    IF i > Len(s) THEN <<>>
    ELSE LET close == FirstIndex(s, "}", i + 1)
         IN IF s[i] = "{" /\ close > i + 1
            THEN <<SubSeq(s, i, close)>> \o FindRefs(s, close + 1)
            ELSE FindRefs(s, i + 1)

\* lines 181-185 of parse_complex_name_reference, from reference i on
RECURSIVE ResolveParts(_, _, _, _, _)
ResolveParts(txt, env, refs, i, resolved_parts) ==
    LET Rest(r) == ResolveParts(r.txt, env, refs, i + 1,
                       IF r.ret # <<>> /\ ~StartsWith(r.ret, "{")
                       THEN Append(resolved_parts, r.ret) ELSE resolved_parts)
    IN IF i > Len(refs) THEN [txt |-> txt, resolved_parts |-> resolved_parts]
       ELSE Rest(Resolve(txt, env, refs[i]))

\* parse_complex_name_reference: [txt, isnone, ret].  re.match(r'\(([^)]+)\)(.+)')
\* needs '(' first, the first ')' after at least one other character, and at
\* least one character after it.
parse_complex_name_reference(txt, env, name_ref) ==
    LET close == FirstIndex(name_ref, ")", 2)
        none == [txt |-> txt, isnone |-> TRUE, ret |-> <<>>]
        Cleaned(p, clean_variations) ==
            [txt |-> p.txt, isnone |-> FALSE,
             ret |-> IF p.resolved_parts # <<>>
                     THEN IF clean_variations # <<>>
                          THEN p.resolved_parts[1] \o <<" ">> \o Join(clean_variations)
                          ELSE p.resolved_parts[1]
                     ELSE SubSeq(name_ref, 2, close - 1)]
        Parts(p) ==
            Cleaned(p, SelectSeq(Tail(p.resolved_parts),
                                 LAMBDA var : var # <<>> /\ ~StartsWith(var, "{")))
    IN IF name_ref = <<>> \/ ~StartsWith(name_ref, "(") THEN none
       ELSE IF close < 3 \/ close = Len(name_ref) THEN none
       ELSE Parts(ResolveParts(txt, env,
                      FindRefs(Strip(SubSeq(name_ref, close + 1, Len(name_ref))), 1),
                      1, <<>>))

-----------------------------------------------------------------------------
(* data_parser.py: load_ship_data.  A ship macro file is a record             *)
(*   [stem, parse, macro, macro_name, alias, class, props, hull, ship_type,   *)
(*    component_ref, component]                                               *)
(* and a component file is [state, conns]: "missing", "unparsable" or "ok"     *)
(* with the tags attributes of its <connection> elements in document order    *)
(* (<<>>: no tags attribute).  File stems, paths, macro names and tags are    *)
(* chunk sequences; <<>> is an absent alias.  Of the numeric attributes read  *)
(* with float() and int() the hull maximum stands for all.                    *)

\* the words of the modelled vocabulary that hold another one inside them
WordInside == { <<"large", "extralarge">>, <<"xl", "xlarge">>, <<"small", "smalldrone">> }

\* Python's  word in text , for a word without separators
Contains(text, word) ==
    \E i \in 1..Len(text) : text[i] = word \/ <<word, text[i]>> \in WordInside

\* float(text): [ok, value]; value in whole units
ParseFloat(text) ==
    CASE text = "1200" -> [ok |-> TRUE, value |-> 1200]
      [] text = "0" -> [ok |-> TRUE, value |-> 0]
      [] OTHER -> [ok |-> FALSE, value |-> 0]

\* lines 375-394 without the two fallback assignments of 1
EngineCountNoDefault(component_ref, component) ==
    IF component_ref = "None" \/ component.state # "ok" THEN 0
    ELSE Cardinality({i \in 1..Len(component.conns) :
                component.conns[i] # <<>> /\ Contains(component.conns[i], "engine")})

\* lines 375-394: engine_connections
EngineCount(component_ref, component) ==
    IF component_ref = "None" THEN 0
    ELSE IF component.state = "missing" THEN 1
    ELSE IF component.state = "unparsable" THEN 1
    ELSE Cardinality({i \in 1..Len(component.conns) :
                component.conns[i] # <<>> /\ Contains(component.conns[i], "engine")})

\* the shield-tagged connections of a parsed component file, in document order
ShieldConns(component) ==
    SelectSeq(component.conns, LAMBDA t : t # <<>> /\ Contains(t, "shield"))

\* lines 414-434: shield_size_class from the first shield connection's tags,
\* else from the size folder in the macro file's path
ShieldSizeClass(tags, path) ==
    IF Contains(tags, "small") THEN "s"
    ELSE IF Contains(tags, "medium") THEN "m"
    ELSE IF Contains(tags, "large") THEN "l"
    ELSE IF Contains(tags, "extralarge") \/ Contains(tags, "xl") THEN "xl"
    ELSE IF Contains(path, "size_s") THEN "s"
    ELSE IF Contains(path, "size_m") THEN "m"
    ELSE IF Contains(path, "size_l") THEN "l"
    ELSE IF Contains(path, "size_xl") THEN "xl"
    ELSE "None"

\* lines 396-438: [count, size]
ShieldInfo(component_ref, component, path) ==
    IF component_ref = "None" \/ component.state \in {"missing", "unparsable"}
    THEN [count |-> 0, size |-> "None"]
    ELSE LET conns == ShieldConns(component)
         IN [count |-> Len(conns),
             size |-> IF conns # <<>> THEN ShieldSizeClass(conns[1], path) ELSE "None"]

\* str(xml_file): the units directory, the size folder, macros, the file
FilePath(units_dir, size_dir, f) == <<units_dir, "/", size_dir, "/", "macros", "/">> \o f.stem

\* lines 440-450 with the file-name test left out
IsExcludedByTypeOnly(ship_type, name) ==
    ship_type = "smalldrone" \/ ship_type = "lasertower"

\* lines 440-450: the three continue statements; name is xml_file.name
IsExcluded(ship_type, name) ==
    \/ ship_type = "smalldrone"
    \/ ship_type = "lasertower"
    \/ Contains(name, "transdrone")

\* lines 461-466 (and 587-591, 602-606 of load_engine_data): the name a resolved
\* text r stands for, taken apart when it begins with "(" and holds a "{"
ComplexOrPlain(env, r) ==
    LET Complex(p) ==
            [txt |-> p.txt, ret |-> IF ~p.isnone /\ p.ret # <<>> THEN p.ret ELSE r.ret]
    IN IF r.ret # <<>> /\ StartsWith(r.ret, "(") /\ Contains(r.ret, "{")
       THEN Complex(parse_complex_name_reference(r.txt, env, r.ret))
       ELSE r

\* lines 455-468: display_name, [txt, ret]
DisplayName(txt, env, macro_name, name_ref, basename_ref, variation_ref) ==
    LET Constructed(c) == [txt |-> c.txt, ret |-> c.ret]
    IN IF basename_ref # <<>> /\ variation_ref # <<>>
       THEN Constructed(construct_ship_name(txt, env, basename_ref, variation_ref))
       ELSE IF name_ref # <<>> THEN ComplexOrPlain(env, Resolve(txt, env, name_ref))
       ELSE [txt |-> txt, ret |-> macro_name]

\* one pass of the loop body, lines 301-497: a record, a skip (continue), or
\* the exception that leaves load_ship_data; txt is the text state afterwards
ExtractShip(units_dir, size_dir, f, txt, env) ==
    LET macro_name == IF f.alias # <<>> /\ f.alias[Len(f.alias)] = "_macro"
                      THEN f.alias ELSE f.macro_name
        Record(shield, d) ==
            [kind |-> "record",
             txt |-> d.txt,
             rec |-> [macro_name |-> macro_name,
                      alias |-> f.alias,
                      class |-> f.class,
                      name_ref |-> f.name_ref,
                      basename_ref |-> f.basename_ref,
                      variation_ref |-> f.variation_ref,
                      display_name |-> d.ret,
                      hull_max |-> IF f.hull # "None" THEN ParseFloat(f.hull).value ELSE 0,
                      ship_type |-> f.ship_type,
                      engine_connections |-> EngineCount(f.component_ref, f.component),
                      shield_connections |-> shield.count,
                      shield_size_class |-> shield.size,
                      component_ref |-> f.component_ref,
                      file |-> FilePath(units_dir, size_dir, f)]]
    IN IF f.parse = "error" THEN [kind |-> "skip", txt |-> txt]
       ELSE IF ~f.macro THEN [kind |-> "skip", txt |-> txt]
       ELSE IF ~f.props THEN [kind |-> "skip", txt |-> txt]
       ELSE IF f.hull # "None" /\ ~ParseFloat(f.hull).ok THEN [kind |-> "raise", txt |-> txt]
       ELSE IF IsExcluded(f.ship_type, f.stem \o <<".xml">>) THEN [kind |-> "skip", txt |-> txt]
       ELSE Record(ShieldInfo(f.component_ref, f.component, FilePath(units_dir, size_dir, f)),
                   DisplayName(txt, env, macro_name, f.name_ref, f.basename_ref,
                               f.variation_ref))

\* macros_dir.glob("ship_*.xml")
IsShipFile(f) == Len(f.stem) >= 2 /\ f.stem[1] = "ship" /\ f.stem[2] = "_"

\* the loop over the files of one macros folder, from file j on:
\* [ships, raised, txt]
RECURSIVE LoadFiles(_, _, _, _, _, _, _)
LoadFiles(ships, units_dir, size_dir, files, j, txt, env) ==
    LET Rest(x) ==
            IF x.kind = "raise"
            THEN [ships |-> ships, raised |-> "ValueError", txt |-> x.txt]
            ELSE IF x.kind = "skip"
            THEN LoadFiles(ships, units_dir, size_dir, files, j + 1, x.txt, env)
            ELSE LoadFiles(Append(ships, x.rec), units_dir, size_dir, files, j + 1,
                           x.txt, env)
    IN IF j > Len(files) THEN [ships |-> ships, raised |-> "None", txt |-> txt]
       ELSE IF ~IsShipFile(files[j])
            THEN LoadFiles(ships, units_dir, size_dir, files, j + 1, txt, env)
       ELSE Rest(ExtractShip(units_dir, size_dir, files[j], txt, env))

\* the loop over the size_* folders of UNITS_DIR, from folder i on
RECURSIVE LoadDirs(_, _, _, _, _, _)
LoadDirs(ships, units_dir, dirs, i, txt, env) ==
    LET Rest(r) == IF r.raised # "None" THEN r
                   ELSE LoadDirs(r.ships, units_dir, dirs, i + 1, r.txt, env)
    IN IF i > Len(dirs) THEN [ships |-> ships, raised |-> "None", txt |-> txt]
       ELSE IF dirs[i].name = "size_xs" \/ ~dirs[i].macros
            THEN LoadDirs(ships, units_dir, dirs, i + 1, txt, env)
            ELSE Rest(LoadFiles(ships, units_dir, dirs[i].name, dirs[i].files, 1, txt, env))

\* UNITS_DIR = find_data_path("assets/units") or Path("data/assets/units"):
\* the index of the data root used, 0 when the default path does not exist
UnitsRoot(tree) ==
    IF tree[1].exists THEN 1 ELSE IF tree[2].exists THEN 2 ELSE 0

\* ships_df.merge(engines_df, left_on="component_ref", right_on="name",
\* how="left"): one row per matching engine, one row for a ship without match
RECURSIVE MergeEngines(_, _, _)
MergeEngines(ships, engines, i) ==
    IF i > Len(ships) THEN <<>>
    ELSE LET hits == SelectSeq(engines, LAMBDA e : e.name = ships[i].component_ref)
             rows == IF hits = <<>>
                     THEN << [ship |-> ships[i], name |-> "NaN"] >>
                     ELSE [k \in 1..Len(hits) |-> [ship |-> ships[i], name |-> hits[k].name]]
         IN rows \o MergeEngines(ships, engines, i + 1)

\* load_ship_data(engines_df): [ships, raised, txt]; rows are [ship, name], name
\* the merged engine's name, "NaN" without match, "None" when nothing was merged
load_ship_data(tree, engines, txt, env) ==
    LET root == UnitsRoot(tree)
        Merged(r) ==
            IF r.raised # "None" THEN [ships |-> <<>>, raised |-> r.raised, txt |-> r.txt]
            ELSE IF r.ships # <<>> /\ engines # <<>>
                 THEN [ships |-> MergeEngines(r.ships, engines, 1), raised |-> "None",
                       txt |-> r.txt]
                 ELSE [ships |-> [k \in 1..Len(r.ships) |->
                                     [ship |-> r.ships[k], name |-> "None"]],
                       raised |-> "None", txt |-> r.txt]
    IN Merged(IF root = 0 THEN [ships |-> <<>>, raised |-> "None", txt |-> txt]
              ELSE LoadDirs(<<>>, DATA_PATHS[root] \o "/assets/units", tree[root].dirs, 1,
                            txt, env))

-----------------------------------------------------------------------------
(* data_parser.py: load_engine_data, parse_shields and the full load.  The   *)
(* assets/props tree is, per data root, [engines, shields], each a folder    *)
(* [exists, files].  An engine file is [parse, macros], its macros of class  *)
(* engine in document order: [name, props, basename_ref, name_ref, mk,       *)
(* travel]; a shield file is [stem, parse, macro, name, basename_ref,        *)
(* name_ref, mk, recharge].  The travel thrust stands for the four thrusts   *)
(* read with float(), the recharge maximum for the values read with int().   *)

\* get_all_data_paths(relative_path), for a folder of the props tree: the
\* indices of the data roots that hold it, in the order of DATA_PATHS
RECURSIVE AllFrom(_, _, _)
AllFrom(props, kind, i) ==
    IF i > Len(DATA_PATHS) THEN <<>>
    ELSE (IF props[i][kind].exists THEN <<i>> ELSE <<>>) \o AllFrom(props, kind, i + 1)

get_all_data_paths(props, kind) == AllFrom(props, kind, 1)

\* f"{base_name} Mk{mk}"
WithMark(base_name, mk) == base_name \o <<" Mk">> \o mk

\* lines 585-597 and 600-606: the name for a resolved text r, the macro's name
\* when the text is empty; mk is added to a basename only
EngineName(env, macro_name, mk, r) ==
    LET Marked(b) == [txt |-> b.txt,
                      ret |-> IF mk # <<>> THEN WithMark(b.ret, mk) ELSE b.ret]
    IN IF r.ret = <<>> THEN [txt |-> r.txt, ret |-> <<macro_name>>]
       ELSE Marked(ComplexOrPlain(env, r))

\* lines 582-606: the engine's display name, [txt, ret]
EngineDisplayName(txt, env, m) ==
    IF m.props /\ m.basename_ref # <<>>
    THEN EngineName(env, m.name, m.mk, Resolve(txt, env, m.basename_ref))
    ELSE IF m.props /\ m.name_ref # <<>>
    THEN EngineName(env, m.name, <<>>, Resolve(txt, env, m.name_ref))
    ELSE [txt |-> txt, ret |-> <<m.name>>]

\* the loop over the engine macros of one file, lines 548-621, from macro k on:
\* [engines, raised, txt]
RECURSIVE LoadMacros(_, _, _, _, _)
LoadMacros(engines, macros, k, txt, env) ==
    LET Row(m, thrust, d) ==
            IF ~thrust.ok THEN [engines |-> engines, raised |-> "ValueError", txt |-> txt]
            ELSE LoadMacros(Append(engines,
                     [name |-> m.name,
                      display_name |-> d.ret,
                      basename_ref |-> IF m.props THEN m.basename_ref ELSE <<>>,
                      name_ref |-> IF m.props THEN m.name_ref ELSE <<>>,
                      mk |-> IF m.props THEN m.mk ELSE <<>>,
                      travel_thrust |-> thrust.value]),
                     macros, k + 1, d.txt, env)
    IN IF k > Len(macros) THEN [engines |-> engines, raised |-> "None", txt |-> txt]
       ELSE Row(macros[k],
                IF macros[k].props /\ macros[k].travel # "None"
                THEN ParseFloat(macros[k].travel)
                ELSE [ok |-> TRUE, value |-> 0],
                EngineDisplayName(txt, env, macros[k]))

\* the loop over the files of one engine folder, lines 540-546, from file j on
RECURSIVE LoadEngineFiles(_, _, _, _, _)
LoadEngineFiles(engines, files, j, txt, env) ==
    LET Rest(r) == IF r.raised # "None" THEN r
                   ELSE LoadEngineFiles(r.engines, files, j + 1, r.txt, env)
    IN IF j > Len(files) THEN [engines |-> engines, raised |-> "None", txt |-> txt]
       ELSE IF files[j].parse = "error"
            THEN LoadEngineFiles(engines, files, j + 1, txt, env)
       ELSE Rest(LoadMacros(engines, files[j].macros, 1, txt, env))

\* the loop over the engine folders, line 538, from folder i of roots on
RECURSIVE LoadEngineDirs(_, _, _, _, _, _)
LoadEngineDirs(engines, props, roots, i, txt, env) ==
    LET Rest(r) == IF r.raised # "None" THEN r
                   ELSE LoadEngineDirs(r.engines, props, roots, i + 1, r.txt, env)
    IN IF i > Len(roots) THEN [engines |-> engines, raised |-> "None", txt |-> txt]
       ELSE Rest(LoadEngineFiles(engines, props[roots[i]].engines.files, 1, txt, env))

\* load_engine_data(): [engines, raised, txt]
load_engine_data(props, txt, env) ==
    LET Table(r) ==
            IF r.raised # "None" THEN [engines |-> <<>>, raised |-> r.raised, txt |-> r.txt]
            ELSE r
    IN Table(LoadEngineDirs(<<>>, props, get_all_data_paths(props, "engines"), 1, txt, env))

\* int(text): [ok, value]
ParseIntAttr(text) ==
    CASE text = "5000" -> [ok |-> TRUE, value |-> 5000]
      [] text = "0" -> [ok |-> TRUE, value |-> 0]
      [] OTHER -> [ok |-> FALSE, value |-> 0]

\* shield_dir.glob("shield_*.xml")
IsShieldFile(f) == Len(f.stem) >= 2 /\ f.stem[1] = "shield" /\ f.stem[2] = "_"

\* lines 686-695: the size read off the macro name
ShieldSize(macro_name) ==
    IF Contains(macro_name, "_s_") THEN "s"
    ELSE IF Contains(macro_name, "_m_") THEN "m"
    ELSE IF Contains(macro_name, "_l_") THEN "l"
    ELSE IF Contains(macro_name, "_xl_") THEN "xl"
    ELSE "None"

\* lines 698-713: the shield's display name, [txt, ret]
ShieldDisplayName(txt, env, f) ==
    LET Based(r) == IF r.ret = <<>> THEN [txt |-> r.txt, ret |-> f.name]
                    ELSE [txt |-> r.txt,
                          ret |-> IF f.mk # <<>> THEN WithMark(r.ret, f.mk) ELSE r.ret]
        Plain(r) == [txt |-> r.txt, ret |-> IF r.ret = <<>> THEN f.name ELSE r.ret]
    IN IF f.basename_ref # <<>> THEN Based(Resolve(txt, env, f.basename_ref))
       ELSE IF f.name_ref # <<>> THEN Plain(Resolve(txt, env, f.name_ref))
       ELSE [txt |-> txt, ret |-> f.name]

\* the loop over the shield files, lines 644-735, from file j on: [shields, txt]
RECURSIVE LoadShieldFiles(_, _, _, _, _)
LoadShieldFiles(shields, files, j, txt, env) ==
    LET recharge == IF files[j].recharge # "None" THEN ParseIntAttr(files[j].recharge)
                    ELSE [ok |-> TRUE, value |-> 0]
        Row(f, d) ==
            LoadShieldFiles(Append(shields,
                [name |-> f.name,
                 display_name |-> d.ret,
                 basename_ref |-> f.basename_ref,
                 name_ref |-> f.name_ref,
                 mk |-> f.mk,
                 shield_size |-> ShieldSize(f.name),
                 recharge_max |-> recharge.value]),
                files, j + 1, d.txt, env)
    IN IF j > Len(files) THEN [shields |-> shields, txt |-> txt]
       ELSE IF files[j].parse = "error" \/ ~files[j].macro \/ files[j].name = <<>>
               \/ ~recharge.ok
            THEN LoadShieldFiles(shields, files, j + 1, txt, env)
       ELSE Row(files[j], ShieldDisplayName(txt, env, files[j]))

\* shield_files, lines 639-642: the shield files of the folders of roots, from
\* folder i on
RECURSIVE ShieldFiles(_, _, _)
ShieldFiles(props, roots, i) ==
    IF i > Len(roots) THEN <<>>
    ELSE SelectSeq(props[roots[i]].shields.files, IsShieldFile)
         \o ShieldFiles(props, roots, i + 1)

\* parse_shields(): [shields, txt]
parse_shields(props, txt, env) ==
    LoadShieldFiles(<<>>, ShieldFiles(props, get_all_data_paths(props, "shields"), 1), 1,
                    txt, env)

\* the text state after load_text_mappings
LoadedTxt(txt, env) ==
    LET Of(l) == [cached |-> l.cached, table |-> l.table, curfile |-> l.curfile]
    IN Of(load_text_mappings(txt.cached, env.override, txt.table, txt.curfile,
                             env.configs, env.steamReg, env.sysLocale, env.fs))

\* to_csv under data/csv_cache, written only for a table that is not empty
WriteCsv(old, df) == IF df # <<>> THEN df ELSE old

\* lines 849-867, after the engine table e and the ship table s
WithShips(props, csv, env, e, s) ==
    LET Written(h) ==
            [engines |-> e.engines, ships |-> s.ships, shields |-> h.shields,
             raised |-> "None",
             csv |-> [ships |-> WriteCsv(csv.ships, s.ships),
                      engines |-> WriteCsv(csv.engines, e.engines),
                      shields |-> WriteCsv(csv.shields, h.shields)],
             txt |-> h.txt]
    IN IF s.raised # "None"
       THEN [engines |-> e.engines, ships |-> <<>>, shields |-> <<>>,
             raised |-> s.raised, csv |-> csv, txt |-> s.txt]
       ELSE Written(parse_shields(props, s.txt, env))

\* lines 848-867, after the engine table e
WithEngines(tree, props, csv, env, e) ==
    IF e.raised # "None"
    THEN [engines |-> <<>>, ships |-> <<>>, shields |-> <<>>, raised |-> e.raised,
          csv |-> csv, txt |-> e.txt]
    ELSE WithShips(props, csv, env, e, load_ship_data(tree, e.engines, e.txt, env))

\* generate_all_csv_files, lines 839-867: the text mappings, then the engine,
\* ship and shield tables and their files; an exception of a loader leaves the
\* function.  [engines, ships, shields, raised, csv, txt]
generate_all_csv_files(tree, props, csv, txt, env) ==
    WithEngines(tree, props, csv, env, load_engine_data(props, LoadedTxt(txt, env), env))

-----------------------------------------------------------------------------
(* logic.py and gui.py: travel speed and cargo/speed ratio.  A float is the  *)
(* exact fraction [n, d] with d > 0 in lowest terms; a row (dict or Series)  *)
(* is [isnone, fields], fields a function from the keys present to integers. *)

Abs(i) == IF i < 0 THEN -i ELSE i

RECURSIVE GCD(_, _)
GCD(a, b) == IF b = 0 THEN a ELSE GCD(b, a % b)

R(i) == [n |-> i, d |-> 1]

\* n / d in lowest terms, d # 0
Norm(n, d) ==
    LET g == GCD(Abs(n), Abs(d))
        sign == IF d < 0 THEN -1 ELSE 1
    IN [n |-> sign * (n \div g), d |-> sign * (d \div g)]

RatMul(a, b) ==
    LET g1 == GCD(Abs(a.n), b.d)
        g2 == GCD(Abs(b.n), a.d)
    IN Norm((a.n \div g1) * (b.n \div g2), (a.d \div g2) * (b.d \div g1))

\* a / b for b # 0
RatDiv(a, b) ==
    RatMul(a, IF b.n > 0 THEN [n |-> b.d, d |-> b.n] ELSE [n |-> -b.d, d |-> -b.n])

\* Python's a / b: [raised, value]
Divide(a, b) ==
    IF b.n = 0 THEN [raised |-> "ZeroDivisionError", value |-> R(0)]
    ELSE [raised |-> "None", value |-> RatDiv(a, b)]

NoneRow == [isnone |-> TRUE, fields |-> <<>>]

\* row.get(key, default)
Get(row, key, default) ==
    IF key \in DOMAIN row.fields THEN R(row.fields[key]) ELSE default

\* 1e-6
Epsilon == [n |-> 1, d |-> 1000000]

\* the drag floored only when it is negative
FloorDragBelowZero(ship_drag_forward) ==
    IF ship_drag_forward.n < 0 THEN Epsilon ELSE ship_drag_forward

\* logic.py lines 47-48
FloorDrag(ship_drag_forward) ==
    IF ship_drag_forward.n <= 0 THEN Epsilon ELSE ship_drag_forward

\* logic.py lines 49-50
FloorConnections(engine_connections) ==
    IF engine_connections.n <= 0 THEN R(1) ELSE engine_connections

\* compute_travel_speed: [raised, value]
compute_travel_speed(ship_row, engine_row) ==
    IF ship_row.isnone \/ engine_row.isnone THEN [raised |-> "None", value |-> R(0)]
    ELSE IF DOMAIN ship_row.fields = {} THEN [raised |-> "None", value |-> R(0)]
    ELSE IF DOMAIN engine_row.fields = {} THEN [raised |-> "None", value |-> R(0)]
    ELSE LET engine_thrust_forward == Get(engine_row, "forward_thrust", R(0))
             travel_thrust == Get(engine_row, "travel_thrust", R(0))
             ship_drag_forward == FloorDrag(Get(ship_row, "drag (forward)", R(1)))
             engine_connections == FloorConnections(Get(ship_row, "engine_connections", R(1)))
         IN Divide(RatMul(RatMul(engine_thrust_forward, travel_thrust), engine_connections),
                   ship_drag_forward)

\* ((1000000 / storage_cargo_max) * (50000 / travel_speed)) / 60 * 2
CargoSpeedRatio(travel_speed, storage_cargo_max) ==
    RatMul(RatDiv(RatMul(RatDiv(R(1000000), storage_cargo_max),
                         RatDiv(R(50000), travel_speed)),
                  R(60)),
           R(2))

\* gui.py line 1507: travel_speed is not None and travel_speed > 0 and
\* storage_cargo_max > 0
PanelGuard(travel_speed, storage_cargo_max) ==
    travel_speed.n > 0 /\ storage_cargo_max.n > 0

\* line 1357 with the comparison travel_speed > 0 left out
ChartGuardTruthy(travel_speed, storage_cargo_max) ==
    travel_speed.n # 0 /\ storage_cargo_max.n > 0

\* gui.py line 1357: travel_speed and travel_speed > 0 and storage_cargo_max > 0
ChartGuard(travel_speed, storage_cargo_max) ==
    travel_speed.n # 0 /\ travel_speed.n > 0 /\ storage_cargo_max.n > 0

NotShown == [done |-> FALSE, raised |-> "None", tab |-> "", shown |-> "", value |-> R(0)]

\* update_tab_stats, lines 1443-1511: the Cargo/Speed Ratio line of the panel;
\* a fighter tab shows none
update_tab_stats(ship_row, engine_row, tab) ==
    LET s == compute_travel_speed(ship_row, engine_row)
        storage_cargo_max == IF ship_row.isnone THEN R(0)
                             ELSE Get(ship_row, "storage_cargo_max", R(0))
    IN IF s.raised # "None" THEN [NotShown EXCEPT !.done = TRUE, !.raised = s.raised, !.tab = tab]
       ELSE IF tab = "fighter" THEN [NotShown EXCEPT !.done = TRUE, !.tab = tab]
       ELSE IF PanelGuard(s.value, storage_cargo_max)
       THEN [done |-> TRUE, raised |-> "None", tab |-> tab, shown |-> "ratio",
             value |-> CargoSpeedRatio(s.value, storage_cargo_max)]
       ELSE [done |-> TRUE, raised |-> "None", tab |-> tab, shown |-> "N/A", value |-> R(0)]

\* update_comparison_chart, lines 1343-1372, for the one ship of the tab:
\* shown "ratio" when the ship gets a bar, "" when it gets none
update_comparison_chart(ship_row, engine_row) ==
    IF ship_row.isnone \/ engine_row.isnone THEN [NotShown EXCEPT !.done = TRUE]
    ELSE LET s == compute_travel_speed(ship_row, engine_row)
             storage_cargo_max == Get(ship_row, "storage_cargo_max", R(0))
         IN IF s.raised # "None" THEN [NotShown EXCEPT !.done = TRUE, !.raised = s.raised]
            ELSE IF ChartGuard(s.value, storage_cargo_max)
            THEN [done |-> TRUE, raised |-> "None", tab |-> "", shown |-> "ratio",
                  value |-> CargoSpeedRatio(s.value, storage_cargo_max)]
            ELSE [NotShown EXCEPT !.done = TRUE]

\* no row selected and nothing computed
NoCalc ==
    [ship_row |-> NoneRow, engine_row |-> NoneRow,
     speed |-> [done |-> FALSE, raised |-> "None", value |-> R(0)],
     panel |-> NotShown, chart |-> NotShown]

-----------------------------------------------------------------------------
(* The environment the model draws: translation documents and their paths *)

T(id, text) == [id |-> id, text |-> text]

Page(id, ts) == [id |-> id, ts |-> ts]

Doc(pages) == [kind |-> "xml", root |-> "language", pages |-> pages]

\* English: a padded text, a <t> without id, a <page> without id
Doc44 ==
    Doc(<< Page("1001", << T("1", <<" ", "Hull", " ">>), T("5", <<"Ship">>),
                           T("", <<"Orphan">>) >>),
           Page("", << T("9", <<"Lost">>) >>) >>)

\* Russian: no {1001,5}; {1001,1} given twice; an empty <t>
Doc7 ==
    Doc(<< Page("1001", << T("1", <<"Korpus">>), T("1", <<"Korpus", " ", "II">>) >>),
           Page("20101", << T("7", <<>>) >>) >>)

\* German: escaped parentheses
Doc49 ==
    Doc(<< Page("1001", << T("1", <<"Huelle">>), T("5", <<"Schiff">>) >>),
           Page("20101", << T("7", <<"\\", "(", "Behemoth", "\\", ")", "{", "20101", ",", "8", "}">>) >>) >>)

\* the English file of the second data root
Doc44b == Doc(<< Page("1001", << T("1", <<"Hull", " ", "B">>) >>) >>)

\* English, the pages ship names refer to: a base name, variations, a text
\* that is itself a reference, an empty text, inline references behind a
\* parenthesized literal; {20111,5462} is defined nowhere
DocNames ==
    Doc(<< Page("20101", << T("1", <<"Heavy", " ", "Freighter">>),
                            T("11001", <<"Vanguard">>),
                            T("20", <<"\\", "(", "Behemoth", " ", "E", "\\", ")",
                                      "{", "20101", ",", "11001", "}", " ",
                                      "{", "20111", ",", "5462", "}">>),
                            T("21", <<"\\", "(", "Behemoth", " ", "E", "\\", ")",
                                      "{", "20111", ",", "5462", "}">>) >>),
           Page("20111", << T("3101", <<"XL">>), T("1101", <<"Mk2">>),
                            T("9", <<"{", "20111", ",", "1101", "}">>),
                            T("8", <<>>) >>) >>)

\* a well-formed document whose root is not <language>
DocOther == [kind |-> "xml", root |-> "diff", pages |-> Doc44.pages]

DocOf(lang) == IF lang = RussianId THEN Doc7 ELSE IF lang = GermanId THEN Doc49 ELSE Doc44

TextPath(root, lang) == root \o "/t/" \o get_language_file_name(lang)

ConfigPaths == {config_paths(InstallPath)[i] : i \in 1..3}

\* the references the consumers resolve: known, unknown, and a literal
Refs ==
    { TextKey("1001", "1"), TextKey("1001", "5"), TextKey("20101", "7"),
      TextKey("1001", "9"), <<"Plain">> }

\* the ids the language dialog or a script may pass to set_user_override
OverrideArgs == Langs \cup {99}

NoCall == [op |-> "init", arg |-> "", ret |-> "", raised |-> "None", outcome |-> ""]

\* data/csv_cache before anything was written
NoCsv == [ships |-> <<>>, engines |-> <<>>, shields |-> <<>>]

NoFolder == [exists |-> FALSE, files |-> <<>>]

NoProps == [engines |-> NoFolder, shields |-> NoFolder]

\* what a full load returned: nothing yet
NoTables == [engines |-> <<>>, ships |-> <<>>, shields |-> <<>>, raised |-> "None"]

\* no props tree and no full load: the state under the other specifications.
\* n counts the full loads; last and prev are the tables of the last two;
\* start tells whether the last one began with a table and a cached id; changed says that the
\* language selection was set or cleared since the last one, steady that it
\* was not between the last two.
NoFull ==
    [props |-> <<NoProps, NoProps>>, csv |-> NoCsv, n |-> 0, changed |-> FALSE,
     steady |-> FALSE, last |-> NoTables, prev |-> NoTables,
     start |-> [loaded |-> FALSE, cached |-> NoneId]]

\* no storage lookup made and no weapon file read: the state under the
\* specifications of the other parts
NoStorage ==
    [done |-> FALSE, stem |-> <<>>, files |-> <<>>, connections |-> <<>>,
     max |-> 0, type |-> "None", raised |-> "None"]

\* no WeaponSystems folder and no generator made
\* scans counts the scans made and scanned tells that the generator has made
\* one; tbl is the table the last one read, old the lengths of the two lists
\* before it
NoWeapons ==
    [tree |-> <<NoFolder, NoFolder>>, made |-> FALSE, paths |-> <<>>,
     weapons_data |-> <<>>, turrets_data |-> <<>>, scans |-> 0, scanned |-> FALSE,
     tbl |-> <<>>, old |-> [w |-> 0, t |-> 0]]

InitProgram ==
    /\ cached = NoneId
    /\ override = NoneId
    /\ table = EmptyMap
    /\ curfile = "None"
    /\ call = NoCall
    /\ pre = [cached |-> NoneId, override |-> NoneId, table |-> EmptyMap,
              curfile |-> "None"]

NoUnits == [exists |-> FALSE, dirs |-> <<>>]

\* no units tree and no ship load: the state of the ship side under the
\* specifications of the localisation resolver
InitNoShips ==
    /\ units = <<NoUnits, NoUnits>>
    /\ engines_df = <<>>
    /\ ships_df = <<>>
    /\ ship_raised = "None"
    /\ loads = 0

FileIn(status, lang) ==
    CASE status = "missing" -> FileMissing
      [] status = "unparsable" -> FileUnparsable
      [] status = "invalid" -> DocOther
      [] OTHER -> DocOf(lang)

FileStatus == {"missing", "unparsable", "invalid", "ok"}

\* <<English file of the first data root, English file of the second>>: the
\* second root is looked at only when the first has no English file
BaselineScenarios ==
    { <<"missing", "missing">>, <<"missing", "ok">>, <<"ok", "missing">>,
      <<"unparsable", "missing">>, <<"invalid", "missing">> }

\* The Russian file in any condition, the German one present or not, the
\* English one as above; auto-detection gives Russian (the OS locale), an
\* override any language.
Init ==
    /\ InitProgram
    /\ InitNoShips
    /\ calc = NoCalc
    /\ gen = NoFull
    /\ sto = NoStorage
    /\ wpn = NoWeapons
    /\ configs = [p \in ConfigPaths |-> ConfigMissing]
    /\ steamReg = "<nokey>"
    /\ sysLocale = <<"ru", "">>
    /\ \E ru \in FileStatus, en \in BaselineScenarios, de \in {"missing", "ok"} :
          fs = (TextPath(DATA_PATHS[1], RussianId) :> FileIn(ru, RussianId))
               @@ (TextPath(DATA_PATHS[1], BaselineId) :> FileIn(en[1], BaselineId))
               @@ (TextPath(DATA_PATHS[1], GermanId) :> FileIn(de, GermanId))
               @@ (TextPath(DATA_PATHS[2], BaselineId) :>
                      IF en[2] = "ok" THEN Doc44b ELSE FileMissing)

-----------------------------------------------------------------------------
(* The calls a consumer (GUI, CSV generator, test script) makes *)

\* the text state and what it is built from, as the operators take them
Txt == [cached |-> cached, table |-> table, curfile |-> curfile]

Env == [override |-> override, configs |-> configs, steamReg |-> steamReg,
        sysLocale |-> sysLocale, fs |-> fs]

Snapshot ==
    [cached |-> cached, override |-> override, table |-> table, curfile |-> curfile]

\* the calls that change the language selection
SelectionCalls == {"set_user_override", "clear_user_override"}

\* the full-load history after a call of the language interface
Noted(op, raised) ==
    [gen EXCEPT !.changed = @ \/ (gen.n > 0 /\ op \in SelectionCalls /\ raised = "None")]

Done(op, arg, ret, raised, outcome) ==
    /\ call' = [op |-> op, arg |-> arg, ret |-> ret, raised |-> raised, outcome |-> outcome]
    /\ pre' = Snapshot
    /\ UNCHANGED <<configs, steamReg, sysLocale, fs>>
    /\ UNCHANGED shipvars
    /\ UNCHANGED calc
    /\ gen' = Noted(op, raised)
    /\ UNCHANGED <<sto, wpn>>

GetLanguageId ==
    \E path \in {NoPath, InstallPath} :
       LET g == get_language_id(cached, override, configs, steamReg, sysLocale, path)
       IN /\ cached' = g.cached
          /\ UNCHANGED <<override, table, curfile>>
          /\ Done("get_language_id", path, g.ret, "None", "")

SetUserOverride ==
    \E id \in OverrideArgs :
       LET r == set_user_override(cached, override, id)
       IN /\ cached' = r.cached
          /\ override' = r.override
          /\ UNCHANGED <<table, curfile>>
          /\ Done("set_user_override", id, "", r.raised, "")

ClearUserOverride ==
    LET r == clear_user_override(cached, override)
    IN /\ cached' = r.cached
       /\ override' = r.override
       /\ UNCHANGED <<table, curfile>>
       /\ Done("clear_user_override", "", "", "None", "")

\* get_language_file_name(): language_id is None, so get_language_id() is called
GetLanguageFileName ==
    LET g == get_language_id(cached, override, configs, steamReg, sysLocale, NoPath)
    IN /\ cached' = g.cached
       /\ UNCHANGED <<override, table, curfile>>
       /\ Done("get_language_file_name", "", get_language_file_name(g.ret), "None", "")

LoadTextMappings ==
    LET l == load_text_mappings(cached, override, table, curfile,
                                configs, steamReg, sysLocale, fs)
    IN /\ cached' = l.cached
       /\ table' = l.table
       /\ curfile' = l.curfile
       /\ UNCHANGED override
       /\ Done("load_text_mappings", "", "", "None", l.outcome)

RefreshTextMappings ==
    LET l == refresh_text_mappings(cached, override, table, curfile,
                                   configs, steamReg, sysLocale, fs)
    IN /\ cached' = l.cached
       /\ table' = l.table
       /\ curfile' = l.curfile
       /\ UNCHANGED override
       /\ Done("refresh_text_mappings", "", "", "None", l.outcome)

ResolveTextReferenceAdvanced ==
    \E r \in Refs :
       LET l == resolve_text_reference_advanced(cached, override, table, curfile,
                                                configs, steamReg, sysLocale, fs, r)
       IN /\ cached' = l.cached
          /\ table' = l.table
          /\ curfile' = l.curfile
          /\ UNCHANGED override
          /\ Done("resolve_text_reference_advanced", r, l.ret, "None", l.outcome)

GetCurrentLanguageInfo ==
    LET i == get_current_language_info(cached, override, table, curfile,
                                       configs, steamReg, sysLocale)
    IN /\ cached' = i.cached
       /\ UNCHANGED <<override, table, curfile>>
       /\ Done("get_current_language_info", "", i.ret, "None", "")

Next ==
    \/ GetLanguageId
    \/ SetUserOverride
    \/ ClearUserOverride
    \/ GetLanguageFileName
    \/ LoadTextMappings
    \/ RefreshTextMappings
    \/ ResolveTextReferenceAdvanced
    \/ GetCurrentLanguageInfo

Spec == Init /\ [][Next]_vars

\* <<install directory's config.xml, Documents/Egosoft/X4, .../X4 Foundations>>:
\* the first in every condition, then the later ones deciding
ConfigScenarios ==
    { <<inst, ConfigMissing, ConfigMissing>> :
        inst \in {ConfigMissing, ConfigUnparsable, ConfigNoLang, ConfigLang(""),
                  ConfigLang("7"), ConfigLang(" 49 "), ConfigLang("abc"), ConfigLang("99")} }
    \cup { <<ConfigMissing, ConfigLang("44"), ConfigLang("7")>>,
           <<ConfigLang("abc"), ConfigLang("44"), ConfigLang("7")>>,
           <<ConfigMissing, ConfigMissing, ConfigLang("7")>> }

\* <<Steam registry value, OS locale>>
HostScenarios ==
    { <<"<nokey>", loc>> :
        loc \in {<<>>, <<"raise">>, <<"en", "US">>, <<"de", "CH">>, <<"ru", "">>, <<"xx", "YY">>} }
    \cup { <<"klingon", <<"ru", "">> >>, <<"German", <<"en", "US">> >>,
           <<"english", <<"de", "CH">> >> }

\* <<config files, host>>: every config scenario on a host without Steam key,
\* every host without config file, and config files next to a Steam language
DetectScenarios ==
    { <<c, <<"<nokey>", <<"en", "US">> >> >> : c \in ConfigScenarios }
    \cup { << <<ConfigMissing, ConfigMissing, ConfigMissing>>, h >> : h \in HostScenarios }
    \cup { << <<ConfigLang("7"), ConfigMissing, ConfigMissing>>, <<"German", <<"en", "US">> >> >>,
           << <<ConfigLang("abc"), ConfigLang("44"), ConfigLang("7")>>, <<"German", <<"ru", "">> >> >>,
           << <<ConfigMissing, ConfigMissing, ConfigLang("7")>>, <<"klingon", <<"de", "CH">> >> >> }

\* The translation files all present; the detection chain in any condition.
InitDetect ==
    /\ InitProgram
    /\ InitNoShips
    /\ calc = NoCalc
    /\ gen = NoFull
    /\ sto = NoStorage
    /\ wpn = NoWeapons
    /\ \E d \in DetectScenarios :
          /\ configs = (config_paths(InstallPath)[1] :> d[1][1])
                       @@ (config_paths(InstallPath)[2] :> d[1][2])
                       @@ (config_paths(InstallPath)[3] :> d[1][3])
          /\ steamReg = d[2][1]
          /\ sysLocale = d[2][2]
    /\ fs = (TextPath(DATA_PATHS[1], RussianId) :> Doc7)
            @@ (TextPath(DATA_PATHS[1], BaselineId) :> Doc44)
            @@ (TextPath(DATA_PATHS[1], GermanId) :> Doc49)
            @@ (TextPath(DATA_PATHS[2], BaselineId) :> FileMissing)

SpecDetect == InitDetect /\ [][Next]_vars

-----------------------------------------------------------------------------
(* Properties of the localisation resolver *)

\* the language get_language_id() gave the last call, from the state it ran in
SelectedBefore ==
    get_language_id(pre.cached, pre.override, configs, steamReg, sysLocale, NoPath).ret

OwnFile(lang) == find_data_path(fs, "t/" \o get_language_file_name(lang))

BaselineFile == find_data_path(fs, "t/0001-l044.xml")

\* the entries of lang's translation file, or of the baseline file when lang's
\* file is missing; nothing when the file found cannot be read as a language file
TableFor(lang) ==
    LET f == IF OwnFile(lang) # "None" THEN OwnFile(lang) ELSE BaselineFile
    IN IF f = "None" THEN EmptyMap
       ELSE IF fs[f].kind # "xml" \/ fs[f].root # "language" THEN EmptyMap
       ELSE StorePages(EmptyMap, fs[f].pages, 1)

IsLoad == call.op \in {"load_text_mappings", "refresh_text_mappings"}

IsResolve == call.op = "resolve_text_reference_advanced"

\* a non-empty table of another language than the one now selected was loaded
\* and the cached id was dropped when the last call was made
LanguageSwitched ==
    /\ pre.cached = NoneId
    /\ ~IsEmptyMap(pre.table)
    /\ pre.curfile # get_language_file_name(SelectedBefore)

\* C1: resolve_text_reference_advanced(r) raises nothing and, when r is not a
\* key of the table it looks r up in (the table as loaded, or as lazily built by
\* this call when it was empty), returns r itself.
C1_UnknownReferenceUnchanged ==
    IsResolve =>
        /\ call.raised = "None"
        /\ call.arg \notin DOMAIN table => call.ret = call.arg
        /\ ~IsEmptyMap(pre.table) /\ call.arg \notin DOMAIN pre.table => call.ret = call.arg

C1_Witness ==
    /\ IsResolve
    /\ ~IsEmptyMap(table)
    /\ pre.curfile # "None"
    /\ call.arg = TextKey("1001", "5")
    /\ call.arg \notin DOMAIN table
    /\ call.ret = call.arg

\* C3 as claimed: after the selected language changed under a loaded table,
\* the very next resolve_text_reference_advanced rebuilds the table for the new
\* language before answering.
C3_NextResolveRebuilds ==
    IsResolve /\ LanguageSwitched =>
        /\ table = TableFor(SelectedBefore)
        /\ call.ret = DictGet(TableFor(SelectedBefore), call.arg, call.arg)

\* C3 as amended: set_user_override and clear_user_override drop the cached id;
\* after the selected language changed under a loaded table, the next
\* load_text_mappings or refresh_text_mappings rebuilds the table in full for the
\* new language, while resolve_text_reference_advanced (which loads only into
\* an empty table) answers from the old table and leaves it as it was.
C3_RebuildOnNextLoad ==
    /\ call.op = "clear_user_override" => cached = NoneId
    /\ call.op = "set_user_override" /\ call.raised = "None" => cached = NoneId
    /\ IsLoad /\ LanguageSwitched => table = TableFor(SelectedBefore)
    /\ IsResolve /\ LanguageSwitched =>
          /\ table = pre.table
          /\ curfile = pre.curfile
          /\ call.ret = DictGet(pre.table, call.arg, call.arg)

C3_Witness ==
    /\ IsResolve
    /\ LanguageSwitched
    /\ table = pre.table
    /\ ~IsEmptyMap(TableFor(SelectedBefore))
    /\ call.ret # DictGet(TableFor(SelectedBefore), call.arg, call.arg)

\* C4: with an override L set, load_text_mappings leaves the table holding the
\* entries of L's translation file, or of the baseline file when L's file is
\* missing (nothing when that file cannot be read), whatever id was cached
\* before the override was set and whatever table was loaded.
C4_LoadUsesOverride ==
    call.op = "load_text_mappings" /\ pre.override # NoneId =>
        table = TableFor(pre.override)

C4_Witness ==
    /\ call.op = "load_text_mappings"
    /\ pre.override = RussianId
    /\ pre.cached = NoneId
    /\ pre.curfile = "0001-l044.xml"
    /\ ~IsEmptyMap(pre.table)
    /\ OwnFile(RussianId) # "None"
    /\ ~IsEmptyMap(table)
    /\ table = TableFor(RussianId)

\* the id the documented priority gives a get_language_id(path) call: the
\* override, else the game configuration's language (looked for when the call
\* names an installation), else Steam's, else the OS locale's, else 44
PriorityId(x4_install_path) ==
    LET x4_lang == IF x4_install_path # NoPath
                   THEN detect_x4_game_language(configs, x4_install_path)
                   ELSE NoneId
    IN IF override # NoneId THEN override
       ELSE IF x4_lang # NoneId THEN x4_lang
       ELSE IF detect_steam_language(steamReg) # NoneId THEN detect_steam_language(steamReg)
       ELSE detect_system_language(sysLocale)

\* C5: after any sequence of get_language_id, set_user_override and
\* clear_user_override calls, get_language_id returns the id of the
\* highest-priority source that is available.
C5_HighestPrioritySource ==
    call.op = "get_language_id" => call.ret = PriorityId(call.arg)

ExpectedFileName ==
    (RussianId :> "0001-l007.xml") @@ (BaselineId :> "0001-l044.xml")
        @@ (GermanId :> "0001-l049.xml")

\* C6: set_user_override(L) with a valid L leaves the override L and no cached
\* id, so that get_language_id() returns L and get_language_file_name() returns
\* '0001-l' + L in three digits + '.xml' whatever was cached before; after
\* clear_user_override() neither an override nor a cached id is left and the
\* next get_language_id() returns what auto-detection gives.
C6_OverrideThenClear ==
    /\ call.op = "set_user_override" /\ call.raised = "None" =>
          override = call.arg /\ cached = NoneId
    /\ call.op = "get_language_id" /\ pre.override # NoneId => call.ret = pre.override
    /\ call.op = "get_language_file_name" /\ pre.override # NoneId =>
          call.ret = ExpectedFileName[pre.override]
    /\ call.op = "clear_user_override" => override = NoneId /\ cached = NoneId
    /\ call.op = "get_language_id" /\ pre.override = NoneId /\ pre.cached = NoneId =>
          call.ret = AutoDetect(configs, steamReg, sysLocale, call.arg)

C6_Witness ==
    /\ call.op = "get_language_file_name"
    /\ pre.override = RussianId
    /\ pre.cached = NoneId
    /\ curfile = "0001-l049.xml"
    /\ call.ret = "0001-l007.xml"

\* the selected language's file is missing and the baseline file was loaded in
\* its place
LoadedFromFallback(lang) ==
    /\ OwnFile(lang) = "None"
    /\ BaselineFile # "None"
    /\ curfile = get_language_file_name(lang)
    /\ ~IsEmptyMap(table)
    /\ table = TableFor(BaselineId)

\* C7: when the baseline file was loaded in place of the selected language's
\* missing file, the language name get_current_language_info reports is marked
\* as a fallback and is not the plain name of the selected language.
C7_FallbackNameObservable ==
    call.op = "get_current_language_info" /\ LoadedFromFallback(call.ret.language_id) =>
        call.ret.language_name # X4_LANGUAGE_MAP[call.ret.language_id]

NoTextFile(lang) == OwnFile(lang) = "None" /\ BaselineFile = "None"

\* C8: when neither the selected language's file nor the baseline file exists,
\* load_text_mappings and refresh_text_mappings leave the table empty, and a
\* resolve_text_reference_advanced call made with the table so emptied returns
\* its input token and leaves the table empty.
C8_NoFilesEmptyTable ==
    /\ IsLoad /\ NoTextFile(SelectedBefore) => IsEmptyMap(table)
    /\ IsResolve /\ NoTextFile(SelectedBefore) /\ IsEmptyMap(pre.table) =>
          IsEmptyMap(table) /\ call.ret = call.arg

C8_Witness ==
    /\ call.op = "load_text_mappings"
    /\ NoTextFile(SelectedBefore)
    /\ ~IsEmptyMap(pre.table)
    /\ IsEmptyMap(table)

\* C9: a reload that fails (no file, unparsable file, root not 'language')
\* leaves the table and CURRENT_LANGUAGE_FILE as they were before it.
C9_FailedReloadKeepsTable ==
    IsLoad /\ call.outcome \in {"nofile", "parseerror", "invalid"} =>
        table = pre.table /\ curfile = pre.curfile

\* C10: a successful load_text_mappings after a change of the active language
\* leaves exactly the entries of the one file parsed: every key of the table is
\* a key of that file with that file's value, and no key of the previous
\* language that the new file does not define is left.
C10_FullRebuild ==
    /\ call.op = "load_text_mappings"
    /\ call.outcome = "loaded"
    /\ ~IsEmptyMap(pre.table)
    /\ pre.curfile # curfile
    => /\ table = TableFor(SelectedBefore)
       /\ \A k \in DOMAIN pre.table :
             k \notin DOMAIN TableFor(SelectedBefore) => k \notin DOMAIN table

C10_Witness ==
    /\ call.op = "load_text_mappings"
    /\ call.outcome = "loaded"
    /\ pre.curfile = "0001-l044.xml"
    /\ curfile = "0001-l007.xml"
    /\ TextKey("1001", "5") \in DOMAIN pre.table
    /\ TextKey("1001", "5") \notin DOMAIN table
    /\ table[TextKey("1001", "1")] = <<"Korpus", " ", "II">>

-----------------------------------------------------------------------------
(* The ship loader: the units trees and engine tables the model draws *)

MaxConnections == 2

MaxLoads == 2

CompMissing == [state |-> "missing", conns |-> <<>>]

CompUnparsable == [state |-> "unparsable", conns |-> <<>>]

Comp(conns) == [state |-> "ok", conns |-> conns]

\* tags attributes: none, engine, shield with and without a size word, other
TagValues ==
    { <<>>, <<"engine">>, <<"engine", " ", "medium">>, <<"small", " ", "shield">>,
      <<"extralarge", " ", "shield">>, <<"shield">>, <<"weapon", " ", "medium">> }

RECURSIVE SeqsUpTo(_, _)
SeqsUpTo(S, n) ==
    IF n = 0 THEN {<<>>}
    ELSE SeqsUpTo(S, n - 1) \cup
         {Append(q, x) : q \in {p \in SeqsUpTo(S, n - 1) : Len(p) = n - 1}, x \in S}

BaseShip ==
    [stem |-> <<"ship", "_", "arg", "_", "fighter">>, parse |-> "ok", macro |-> TRUE,
     macro_name |-> <<"ship_arg_fighter", "_macro">>, alias |-> <<>>, class |-> "ship_s",
     props |-> TRUE, hull |-> "1200", ship_type |-> "fighter",
     name_ref |-> <<>>, basename_ref |-> <<>>, variation_ref |-> <<>>,
     component_ref |-> "ship_arg_fighter", component |-> Comp(<<<<"engine">>, <<"shield">>>>)]

\* the component reference and component file in every condition
ComponentShips ==
    { [BaseShip EXCEPT !.component_ref = "None", !.component = CompMissing],
      [BaseShip EXCEPT !.component = CompMissing],
      [BaseShip EXCEPT !.component = CompUnparsable] }
    \cup { [BaseShip EXCEPT !.component = Comp(c)] : c \in SeqsUpTo(TagValues, MaxConnections) }

\* <identification> in every condition: basename and variation, a plain name,
\* a name whose text holds inline references, a name without translation, a
\* basename without variation
NamedShips ==
    { [BaseShip EXCEPT !.basename_ref = TextKey("20101", "1"),
                       !.variation_ref = TextKey("20111", "3101") \o <<" ">>
                                         \o TextKey("20111", "5462") \o <<" ">>
                                         \o TextKey("20111", "1101")],
      [BaseShip EXCEPT !.name_ref = TextKey("20101", "11001")],
      [BaseShip EXCEPT !.name_ref = TextKey("20101", "20")],
      [BaseShip EXCEPT !.name_ref = TextKey("20101", "21")],
      [BaseShip EXCEPT !.name_ref = TextKey("20101", "99")],
      [BaseShip EXCEPT !.basename_ref = TextKey("20101", "1")] }

\* the other fields the loop body branches on
OtherShips ==
    { [BaseShip EXCEPT !.parse = "error"],
      [BaseShip EXCEPT !.macro = FALSE],
      [BaseShip EXCEPT !.props = FALSE],
      [BaseShip EXCEPT !.hull = "None"],
      [BaseShip EXCEPT !.hull = "abc"],
      [BaseShip EXCEPT !.ship_type = "None"],
      [BaseShip EXCEPT !.ship_type = "smalldrone", !.component_ref = "None"],
      [BaseShip EXCEPT !.ship_type = "lasertower"],
      [BaseShip EXCEPT !.stem = <<"ship", "_", "gen", "_", "transdrone">>],
      [BaseShip EXCEPT !.stem = <<"storage", "_", "arg", "_", "fighter">>],
      [BaseShip EXCEPT !.alias = <<"ship_arg_scout", "_macro">>],
      [BaseShip EXCEPT !.alias = <<"fighter_alias">>, !.class = "storage"],
      [BaseShip EXCEPT !.macro_name = <<"ship_arg_scout", "_macro">>,
                       !.stem = <<"ship", "_", "arg", "_", "scout">>,
                       !.component_ref = "None"] }
    \cup NamedShips

\* the same document under another file name of the same folder
Renamed(f) == [f EXCEPT !.stem = f.stem \o <<"_", "b">>]

SizeDir(name, files) == [name |-> name, macros |-> TRUE, files |-> files]

Units(dirs) == [exists |-> TRUE, dirs |-> dirs]

\* one size folder with one file; two files; the size folders by name;
\* a folder without macros; the second data root; no units directory
UnitsTrees ==
    { <<Units(<<SizeDir("size_s", <<f>>)>>), NoUnits>> : f \in ComponentShips \cup OtherShips }
    \cup { <<Units(<<SizeDir("size_m", <<f, Renamed(g)>>)>>), NoUnits>> :
             f \in OtherShips, g \in OtherShips }
    \cup { <<Units(<<SizeDir(n, <<[BaseShip EXCEPT !.component = Comp(<<<<"shield">>>>)]>>),
                     SizeDir("size_s", <<[BaseShip EXCEPT !.component_ref = "None"]>>)>>), NoUnits>> :
             n \in {"size_m", "size_l", "size_xl", "size_xs"} }
    \cup { <<Units(<<[name |-> "size_l", macros |-> FALSE, files |-> <<>>],
                     SizeDir("size_xl", <<BaseShip>>)>>), NoUnits>>,
           <<NoUnits, Units(<<SizeDir("size_s", <<BaseShip>>)>>)>>,
           <<Units(<<>>), Units(<<SizeDir("size_s", <<BaseShip>>)>>)>>,
           <<Units(<<SizeDir("size_s", <<BaseShip>>)>>),
             Units(<<SizeDir("size_m", <<[BaseShip EXCEPT
                        !.macro_name = <<"ship_arg_scout", "_macro">>,
                        !.stem = <<"ship", "_", "arg", "_", "scout">>]>>)>>)>>,
           <<NoUnits, NoUnits>> }

EngineRow(name) == [name |-> name]

\* engine tables by name: empty, a literal match, the match twice, no match
EngineTables ==
    { <<>>, <<EngineRow("ship_arg_fighter")>>,
      <<EngineRow("ship_arg_fighter"), EngineRow("ship_arg_fighter")>>,
      <<EngineRow("engine_arg_s_travel_01_mk1")>> }

InitShips ==
    /\ InitProgram
    /\ configs = [p \in ConfigPaths |-> ConfigMissing]
    /\ steamReg = "<nokey>"
    /\ sysLocale = <<"en", "US">>
    /\ fs = (TextPath(DATA_PATHS[1], BaselineId) :> DocNames)
           @@ (TextPath(DATA_PATHS[2], BaselineId) :> FileMissing)
    /\ units \in UnitsTrees
    /\ engines_df \in EngineTables
    /\ ships_df = <<>>
    /\ ship_raised = "None"
    /\ loads = 0
    /\ calc = NoCalc
    /\ gen = NoFull
    /\ sto = NoStorage
    /\ wpn = NoWeapons

LoadShipData ==
    /\ loads < MaxLoads
    /\ \E r \in {load_ship_data(units, engines_df, Txt, Env)} :
          /\ ships_df' = r.ships
          /\ ship_raised' = r.raised
          /\ cached' = r.txt.cached
          /\ table' = r.txt.table
          /\ curfile' = r.txt.curfile
    /\ loads' = loads + 1
    /\ UNCHANGED <<units, engines_df>>
    /\ UNCHANGED <<override, configs, steamReg, sysLocale, fs, call, pre>>
    /\ UNCHANGED <<calc, gen, sto, wpn>>

NextShips == LoadShipData

SpecShips == InitShips /\ [][NextShips]_vars

\* C2: every record of the table load_ship_data returns has
\* engine_connections >= 1 and shield_connections >= 0, whether the macro has
\* no component reference, the component file is missing or unparsable, or
\* the component file holds no engine-tagged connection.
C2_ConnectionCounts ==
    \A i \in 1..Len(ships_df) :
        /\ ships_df[i].ship.engine_connections >= 1
        /\ ships_df[i].ship.shield_connections >= 0

-----------------------------------------------------------------------------
(* Properties of the ship loader *)

Loaded == loads > 0 /\ ship_raised = "None"

RowFiles == {ships_df[k].ship.file : k \in 1..Len(ships_df)}

\* the size folders load_ship_data walks: those of the data root UNITS_DIR
\* names, but for size_xs and folders without macros
WalkedDirs ==
    IF UnitsRoot(units) = 0 THEN {}
    ELSE {d \in {units[UnitsRoot(units)].dirs[i] :
                   i \in 1..Len(units[UnitsRoot(units)].dirs)} :
            d.name # "size_xs" /\ d.macros}

UnitsDirOf(root) == DATA_PATHS[root] \o "/assets/units"

\* the files of the ship records found under one data root
RootFiles(root) ==
    LET r == LoadDirs(<<>>, UnitsDirOf(root), units[root].dirs, 1, Txt, Env)
    IN {r.ships[k].file : k \in 1..Len(r.ships)}

\* C11: the result of a ship load holds the records of the macro files found
\* under every data root of DATA_PATHS that has an assets/units directory; the
\* search does not stop at the first root that has one.
C11_AllRootsSearched ==
    Loaded => RowFiles = UNION {RootFiles(root) : root \in {i \in 1..2 : units[i].exists}}

\* a ship macro file that reaches the component lookup and is not excluded
Emitted(f) ==
    /\ IsShipFile(f)
    /\ f.parse = "ok" /\ f.macro /\ f.props
    /\ f.ship_type \notin {"smalldrone", "lasertower"}
    /\ ~Contains(f.stem, "transdrone")

ComponentUnavailable(f) ==
    f.component_ref # "None" /\ f.component.state \in {"missing", "unparsable"}

\* C12: a ship macro whose component reference names a file that is missing
\* or cannot be parsed is still emitted as a record, with engine_connections = 1,
\* shield_connections = 0 and no shield_size_class.
C12_MissingComponentDefaults ==
    Loaded =>
        \A d \in WalkedDirs : \A j \in 1..Len(d.files) :
            Emitted(d.files[j]) /\ ComponentUnavailable(d.files[j]) =>
                LET path == FilePath(UnitsDirOf(UnitsRoot(units)), d.name, d.files[j])
                IN /\ path \in RowFiles
                   /\ \A k \in 1..Len(ships_df) :
                         ships_df[k].ship.file = path =>
                            /\ ships_df[k].ship.engine_connections = 1
                            /\ ships_df[k].ship.shield_connections = 0
                            /\ ships_df[k].ship.shield_size_class = "None"

C12_Witness ==
    /\ Loaded
    /\ \E d \in WalkedDirs : \E j \in 1..Len(d.files) : \E k \in 1..Len(ships_df) :
          /\ Emitted(d.files[j])
          /\ d.files[j].component_ref # "None"
          /\ d.files[j].component.state = "unparsable"
          /\ ships_df[k].ship.file = FilePath(UnitsDirOf(UnitsRoot(units)), d.name, d.files[j])
          /\ ships_df[k].ship.engine_connections = 1
          /\ ships_df[k].ship.shield_connections = 0

\* a macro file that is not well-formed XML, or whose numeric attribute is not
\* a number
Malformed(f) == f.parse = "error" \/ (f.hull # "None" /\ ~ParseFloat(f.hull).ok)

WithoutMalformed(tree) ==
    [i \in 1..2 |->
        [tree[i] EXCEPT !.dirs =
            [n \in 1..Len(tree[i].dirs) |->
                [tree[i].dirs[n] EXCEPT !.files = SelectSeq(@, LAMBDA f : ~Malformed(f))]]]]

\* C13: a malformed macro file is skipped and every other file is processed:
\* load_ship_data raises nothing and returns the table it returns for the same
\* tree with the malformed files removed.
C13_MalformedSkipped ==
    loads > 0 =>
        /\ ship_raised = "None"
        /\ ships_df = load_ship_data(WithoutMalformed(units), engines_df, Txt, Env).ships

\* xml_file.name of a record's file: what follows the macros folder
FileName(path) == SubSeq(path, 7, Len(path))

\* C14: no record of the table load_ship_data returns has ship_type
\* 'smalldrone' or 'lasertower', and none comes from a file whose name
\* contains 'transdrone'.
C14_ExcludedNeverListed ==
    \A k \in 1..Len(ships_df) :
        /\ ships_df[k].ship.ship_type \notin {"smalldrone", "lasertower"}
        /\ ~Contains(FileName(ships_df[k].ship.file), "transdrone")

C14_Witness ==
    /\ Loaded
    /\ Len(ships_df) = 1
    /\ \E d \in WalkedDirs :
          /\ Len(d.files) = 2
          /\ d.files[1].ship_type = "fighter"
          /\ d.files[1].hull = "None"
          /\ Contains(d.files[2].stem, "transdrone")
          /\ d.files[2].parse = "ok" /\ d.files[2].macro /\ d.files[2].props

\* C20: within the table one load_ship_data call returns, no two records have
\* the same macro_name.
C20_MacroNameUnique ==
    \A i \in 1..Len(ships_df) : \A j \in 1..Len(ships_df) :
        i # j => ships_df[i].ship.macro_name # ships_df[j].ship.macro_name

-----------------------------------------------------------------------------
(* The stats views: the rows the model draws, and the three computations *)

MaxHardpoints == 3

Restrict(f, K) == [k \in K |-> f[k]]

\* a full row, the rows lacking one key, the empty row, and no row
RowsOver(full) ==
    { [isnone |-> FALSE, fields |-> f] : f \in full }
    \cup { [isnone |-> FALSE, fields |-> Restrict(f, DOMAIN f \ {k})] :
             f \in full, k \in UNION {DOMAIN g : g \in full} }
    \cup { [isnone |-> FALSE, fields |-> Restrict(f, {})] : f \in full }
    \cup { NoneRow }

ShipRows ==
    RowsOver({ ("drag (forward)" :> d) @@ ("engine_connections" :> c)
               @@ ("storage_cargo_max" :> m) :
                 d \in {-5, 0, 8}, c \in -1..MaxHardpoints, m \in {0, 400, 25000} })

EngineRows ==
    RowsOver({ ("forward_thrust" :> f) @@ ("travel_thrust" :> t) :
                 f \in {-30, 0, 30}, t \in {0, 7} })

InitCalc ==
    /\ InitProgram
    /\ InitNoShips
    /\ gen = NoFull
    /\ sto = NoStorage
    /\ wpn = NoWeapons
    /\ configs = [p \in ConfigPaths |-> ConfigMissing]
    /\ steamReg = "<nokey>"
    /\ sysLocale = <<"en", "US">>
    /\ fs = (TextPath(DATA_PATHS[1], BaselineId) :> Doc44)
    /\ \E s \in ShipRows, e \in EngineRows :
          calc = [NoCalc EXCEPT !.ship_row = s, !.engine_row = e]

ComputeTravelSpeed ==
    /\ calc' = [calc EXCEPT !.speed =
                   [done |-> TRUE,
                    raised |-> compute_travel_speed(calc.ship_row, calc.engine_row).raised,
                    value |-> compute_travel_speed(calc.ship_row, calc.engine_row).value]]
    /\ UNCHANGED <<langvars, shipvars, gen, sto, wpn>>

UpdateTabStats ==
    /\ \E tab \in {"cargo", "fighter"} :
          calc' = [calc EXCEPT !.panel = update_tab_stats(calc.ship_row, calc.engine_row, tab)]
    /\ UNCHANGED <<langvars, shipvars, gen, sto, wpn>>

UpdateComparisonChart ==
    /\ calc' = [calc EXCEPT !.chart = update_comparison_chart(calc.ship_row, calc.engine_row)]
    /\ UNCHANGED <<langvars, shipvars, gen, sto, wpn>>

NextCalc ==
    \/ ComputeTravelSpeed
    \/ UpdateTabStats
    \/ UpdateComparisonChart

SpecCalc == InitCalc /\ [][NextCalc]_vars

\* the integer a row holds under a key, or the default
Field(row, key, default) ==
    IF key \in DOMAIN row.fields THEN row.fields[key] ELSE default

NoOrEmptyRow(row) == row.isnone \/ DOMAIN row.fields = {}

\* forward_thrust * travel_thrust * c, c the engine_connections raised to 1
ThrustProduct ==
    Field(calc.engine_row, "forward_thrust", 0) * Field(calc.engine_row, "travel_thrust", 0)
        * (IF Field(calc.ship_row, "engine_connections", 1) <= 0 THEN 1
           ELSE Field(calc.ship_row, "engine_connections", 1))

\* C15: compute_travel_speed returns 0 when either row is None or empty, and
\* otherwise (forward_thrust * travel_thrust * c) / d, c the engine_connections
\* raised to 1 when <= 0 and d the forward drag replaced by 1e-6 when <= 0; it
\* never raises ZeroDivisionError.
C15_TravelSpeed ==
    calc.speed.done =>
        /\ calc.speed.raised = "None"
        /\ NoOrEmptyRow(calc.ship_row) \/ NoOrEmptyRow(calc.engine_row) =>
              calc.speed.value = R(0)
        /\ ~NoOrEmptyRow(calc.ship_row) /\ ~NoOrEmptyRow(calc.engine_row) =>
              LET drag == Field(calc.ship_row, "drag (forward)", 1)
              IN IF drag <= 0
                 THEN calc.speed.value = R(ThrustProduct * 1000000)
                 ELSE calc.speed.value.n * drag = ThrustProduct * calc.speed.value.d

C15_Witness ==
    /\ calc.speed.done
    /\ ~NoOrEmptyRow(calc.ship_row) /\ ~NoOrEmptyRow(calc.engine_row)
    /\ Field(calc.ship_row, "drag (forward)", 1) = 0
    /\ Field(calc.ship_row, "engine_connections", 1) = 0
    /\ calc.speed.value = R(210000000)

\* what the views are given: the travel speed and the ship's cargo maximum
SpeedOfRows == compute_travel_speed(calc.ship_row, calc.engine_row).value

CargoOfRow ==
    IF calc.ship_row.isnone THEN 0 ELSE Field(calc.ship_row, "storage_cargo_max", 0)

RatioDefined == SpeedOfRows.n > 0 /\ CargoOfRow > 0

\* (1000000 / cargo_max) * (50000 / speed) / 60 * 2 = (1000000 / cargo_max) * ((5000 / 3) / speed)
RatioExpected ==
    RatMul(RatDiv(R(1000000), R(CargoOfRow)), RatDiv([n |-> 5000, d |-> 3], SpeedOfRows))

\* C16: the cargo/speed ratio is shown exactly when travel speed > 0 and
\* storage_cargo_max > 0, and then equals
\* ((1000000 / cargo_max) * (50000 / speed)) / 60 * 2; otherwise the stats
\* panel of a cargo tab shows N/A and the comparison chart gives the ship no
\* bar.  The panel and the chart agree on the guard and on the value.
C16_CargoSpeedRatio ==
    /\ calc.panel.done /\ calc.panel.tab = "cargo" =>
          /\ calc.panel.raised = "None"
          /\ calc.panel.shown = (IF RatioDefined THEN "ratio" ELSE "N/A")
          /\ RatioDefined => calc.panel.value = RatioExpected
    /\ calc.chart.done =>
          /\ calc.chart.raised = "None"
          /\ calc.chart.shown = (IF RatioDefined THEN "ratio" ELSE "")
          /\ RatioDefined => calc.chart.value = RatioExpected
    /\ calc.panel.done /\ calc.panel.tab = "cargo" /\ calc.chart.done =>
          /\ (calc.panel.shown = "ratio") = (calc.chart.shown = "ratio")
          /\ calc.panel.value = calc.chart.value

C16_Witness ==
    /\ calc.panel.done /\ calc.panel.tab = "cargo" /\ calc.chart.done
    /\ calc.panel.shown = "ratio" /\ calc.chart.shown = "ratio"
    /\ CargoOfRow = 400
    /\ SpeedOfRows = [n |-> 315, d |-> 4]
    /\ calc.panel.value = [n |-> 10000000, d |-> 189]
    /\ calc.chart.value = [n |-> 10000000, d |-> 189]

-----------------------------------------------------------------------------
(* Display names: the references the extractors hand to construct_ship_name *)
(* and parse_complex_name_reference                                         *)

MaxVariations == 2

\* basename references: translated, without translation, a literal, none
BasenameRefs == { TextKey("20101", "1"), TextKey("20101", "99"), <<"Freighter">>, <<>> }

\* variation tokens: translated (XL, Mk2), without translation, translated by
\* a text that is itself a reference, translated by an empty text, a literal
VariationTokens ==
    { TextKey("20111", "3101"), TextKey("20111", "1101"), TextKey("20111", "5462"),
      TextKey("20111", "9"), TextKey("20111", "8"), <<"XL">> }

\* the tokens behind a parenthesized literal: translated and not
InlineTokens ==
    { TextKey("20101", "11001"), TextKey("20111", "5462"), TextKey("20111", "3101") }

\* the attribute text: the tokens in order, one blank between two
RECURSIVE Spaced(_)
Spaced(tokens) ==
    IF tokens = <<>> THEN <<>>
    ELSE IF Len(tokens) = 1 THEN tokens[1]
    ELSE tokens[1] \o <<" ">> \o Spaced(Tail(tokens))

\* The English file with the name pages present or not, the Russian file
\* (which lacks those pages), no German file.
InitNames ==
    /\ InitProgram
    /\ InitNoShips
    /\ calc = NoCalc
    /\ gen = NoFull
    /\ sto = NoStorage
    /\ wpn = NoWeapons
    /\ configs = [p \in ConfigPaths |-> ConfigMissing]
    /\ steamReg = "<nokey>"
    /\ sysLocale = <<"en", "US">>
    /\ \E en \in {DocNames, FileMissing} :
          fs = (TextPath(DATA_PATHS[1], BaselineId) :> en)
               @@ (TextPath(DATA_PATHS[1], RussianId) :> Doc7)
               @@ (TextPath(DATA_PATHS[1], GermanId) :> FileMissing)
               @@ (TextPath(DATA_PATHS[2], BaselineId) :> FileMissing)

\* a name is built after a language operation; the runs of name
\* constructions are those load_ship_data makes
NameCalls == {"construct_ship_name", "parse_complex_name_reference"}

ConstructShipName ==
    /\ call.op \notin NameCalls
    /\ \E b \in BasenameRefs, tokens \in SeqsUpTo(VariationTokens, MaxVariations) :
       \E c \in {construct_ship_name(Txt, Env, b, Spaced(tokens))} :
          /\ cached' = c.txt.cached
          /\ table' = c.txt.table
          /\ curfile' = c.txt.curfile
          /\ UNCHANGED override
          /\ Done("construct_ship_name", [basename |-> b, tokens |-> tokens], c.ret,
                  "None", IF c.isnone THEN "none" ELSE "text")

ParseComplexNameReference ==
    /\ call.op \notin NameCalls
    /\ \E literal \in {<<"Behemoth", " ", "E">>}, tokens \in SeqsUpTo(InlineTokens, MaxVariations) :
       \E p \in {parse_complex_name_reference(Txt, Env,
                     <<"(">> \o literal \o <<")">> \o Spaced(tokens))} :
          /\ cached' = p.txt.cached
          /\ table' = p.txt.table
          /\ curfile' = p.txt.curfile
          /\ UNCHANGED override
          /\ Done("parse_complex_name_reference", [literal |-> literal, tokens |-> tokens],
                  p.ret, "None", IF p.isnone THEN "none" ELSE "text")

NextNames ==
    \/ ConstructShipName
    \/ ParseComplexNameReference
    \/ SetUserOverride
    \/ ClearUserOverride
    \/ RefreshTextMappings

SpecNames == InitNames /\ [][NextNames]_vars

\* the token has a translation in the table consulted, and the translation is
\* a text, not a reference
TokenResolved(token) == token \in DOMAIN table /\ ~StartsWith(table[token], "{")

\* a blank and the translation for every token that resolved, in order
RECURSIVE ResolvedSuffix(_)
ResolvedSuffix(tokens) ==
    IF tokens = <<>> THEN <<>>
    ELSE (IF TokenResolved(Head(tokens)) THEN <<" ">> \o table[Head(tokens)] ELSE <<>>)
         \o ResolvedSuffix(Tail(tokens))

C19_LiteralPlusResolved ==
    call.op = "parse_complex_name_reference" /\ call.arg.tokens # <<>> =>
        /\ call.outcome = "text"
        /\ call.ret = call.arg.literal \o ResolvedSuffix(call.arg.tokens)

-----------------------------------------------------------------------------
(* The full load: the trees the model draws, and generate_all_csv_files *)

MaxFullLoads == 2

BaseEngine ==
    [name |-> "engine_arg_s_travel_01_mk1", props |-> TRUE,
     basename_ref |-> TextKey("20101", "1"), name_ref |-> <<>>, mk |-> <<"1">>,
     travel |-> "1200"]

EngineFile(macros) == [parse |-> "ok", macros |-> macros]

\* an engine macro named as a ship's component reference
FighterEngine ==
    [BaseEngine EXCEPT !.name = "ship_arg_fighter", !.basename_ref = TextKey("20101", "7"),
                       !.travel = "None"]

BaseShield ==
    [stem |-> <<"shield", "_", "arg_s_standard_01_mk1">>, parse |-> "ok", macro |-> TRUE,
     name |-> <<"shield_arg", "_s_", "standard_01_mk1", "_macro">>,
     basename_ref |-> TextKey("20101", "1"), name_ref |-> <<>>, mk |-> <<"2">>,
     recharge |-> "5000"]

Folder(files) == [exists |-> TRUE, files |-> files]

Props(engines, shields) == [engines |-> engines, shields |-> shields]

NamedShip == [BaseShip EXCEPT !.name_ref = TextKey("20101", "11001")]

\* <<units, props>>: engines, ships and shields with names to resolve; both
\* data roots in use with one engine file in both, files that are skipped, an
\* engine matching a ship's component; an engine whose thrust is no number; a ship whose hull is no
\* number; nothing at all
FullTrees ==
    { << <<Units(<<SizeDir("size_s", <<NamedShip>>)>>), NoUnits>>,
         <<Props(Folder(<<EngineFile(<<BaseEngine,
                             [BaseEngine EXCEPT !.name = "engine_arg_s_travel_01_mk2",
                                                !.basename_ref = <<>>,
                                                !.name_ref = TextKey("20101", "20")]>>)>>),
                 Folder(<<BaseShield>>)),
           NoProps>> >>,
      << <<Units(<<SizeDir("size_m", <<[BaseShip EXCEPT
                      !.basename_ref = TextKey("20101", "1"),
                      !.variation_ref = TextKey("20111", "3101")]>>)>>), NoUnits>>,
         <<Props(Folder(<<[parse |-> "error", macros |-> <<>>],
                          EngineFile(<<FighterEngine>>)>>),
                 Folder(<<[BaseShield EXCEPT !.recharge = "abc"],
                          [BaseShield EXCEPT !.stem = <<"shieldgen", "_", "arg">>],
                          [BaseShield EXCEPT !.parse = "error"],
                          [BaseShield EXCEPT !.macro = FALSE],
                          [BaseShield EXCEPT !.name = <<>>]>>)),
           Props(Folder(<<EngineFile(<<FighterEngine>>),
                          EngineFile(<<[BaseEngine EXCEPT !.props = FALSE]>>)>>),
                 Folder(<<[BaseShield EXCEPT
                             !.name = <<"shield_arg", "_xl_", "standard_01_mk1", "_macro">>,
                             !.basename_ref = <<>>,
                             !.name_ref = TextKey("20101", "11001"),
                             !.recharge = "None"]>>))>> >>,
      << <<Units(<<SizeDir("size_s", <<NamedShip>>)>>), NoUnits>>,
         <<Props(Folder(<<EngineFile(<<BaseEngine, [BaseEngine EXCEPT !.travel = "abc"]>>)>>),
                 Folder(<<BaseShield>>)),
           NoProps>> >>,
      << <<Units(<<SizeDir("size_s", <<NamedShip, [BaseShip EXCEPT !.hull = "abc"]>>)>>),
           NoUnits>>,
         <<Props(Folder(<<EngineFile(<<BaseEngine>>)>>), Folder(<<BaseShield>>)), NoProps>> >>,
      << <<NoUnits, NoUnits>>, <<NoProps, NoProps>> >> }

\* A new process: the English file with the name pages, the Russian file
\* present or missing, a game configuration that names Russian.
InitFull ==
    /\ InitProgram
    /\ calc = NoCalc
    /\ configs = [p \in ConfigPaths |->
                    IF p = config_paths(InstallPath)[1] THEN ConfigLang("7")
                    ELSE ConfigMissing]
    /\ steamReg = "<nokey>"
    /\ sysLocale = <<"en", "US">>
    /\ \E ru \in {Doc7, FileMissing} :
          fs = (TextPath(DATA_PATHS[1], BaselineId) :> DocNames)
               @@ (TextPath(DATA_PATHS[1], RussianId) :> ru)
               @@ (TextPath(DATA_PATHS[1], GermanId) :> FileMissing)
               @@ (TextPath(DATA_PATHS[2], BaselineId) :> FileMissing)
    /\ \E t \in FullTrees :
          /\ units = t[1]
          /\ gen = [NoFull EXCEPT !.props = t[2]]
          /\ sto = NoStorage
          /\ wpn = NoWeapons
    /\ engines_df = <<>>
    /\ ships_df = <<>>
    /\ ship_raised = "None"
    /\ loads = 0

\* generate_all_csv_files()
GenerateAllCsvFiles ==
    /\ gen.n < MaxFullLoads
    /\ \E r \in {generate_all_csv_files(units, gen.props, gen.csv, Txt, Env)} :
          /\ gen' = [gen EXCEPT !.csv = r.csv,
                                !.n = @ + 1,
                                !.steady = ~gen.changed,
                                !.changed = FALSE,
                                !.prev = gen.last,
                                !.last = [engines |-> r.engines, ships |-> r.ships,
                                          shields |-> r.shields, raised |-> r.raised],
                                !.start = [loaded |-> ~IsEmptyMap(table),
                                           cached |-> cached]]
          /\ engines_df' = r.engines
          /\ ships_df' = r.ships
          /\ ship_raised' = r.raised
          /\ cached' = r.txt.cached
          /\ table' = r.txt.table
          /\ curfile' = r.txt.curfile
          /\ call' = [op |-> "generate_all_csv_files", arg |-> "", ret |-> "",
                      raised |-> r.raised, outcome |-> ""]
    /\ pre' = Snapshot
    /\ loads' = loads + 1
    /\ UNCHANGED <<units, calc, sto, wpn>>
    /\ UNCHANGED <<override, configs, steamReg, sysLocale, fs>>

NextFull ==
    \/ GenerateAllCsvFiles
    \/ GetLanguageId
    \/ SetUserOverride
    \/ ClearUserOverride

SpecFull == InitFull /\ [][NextFull]_vars

\* C17: when a full load (text mappings, engines, ships, shields) follows
\* another one of the same trees, and the language selection was neither set
\* nor cleared between the two, the second returns the same engine, ship and
\* shield tables, and raises the same exception or none, as the first,
\* whatever text-mapping table and cached language id the first left behind.
C17_SecondLoadSameTables ==
    (gen.n >= 2 /\ gen.steady) => gen.last = gen.prev

\* a second load that began with the table and the cached id of the first,
\* under an override whose file is missing, and returned the engine name of
\* the English file again
C17_Witness ==
    /\ gen.n >= 2
    /\ gen.steady
    /\ override = RussianId
    /\ gen.start.loaded
    /\ gen.start.cached # NoneId
    /\ gen.last.raised = "None"
    /\ gen.last = gen.prev
    /\ Len(gen.last.engines) = 2
    /\ Len(gen.last.ships) = 1
    /\ Len(gen.last.shields) = 1
    /\ gen.last.engines[1].display_name = <<"Heavy", " ", "Freighter", " Mk", "1">>


\* C21: in the engine table one load_engine_data call returns no two records
\* have the same name, also when the same engine macro lies under both data
\* roots.
C21_EngineNameUnique ==
    (gen.n > 0 /\ call.raised = "None" /\ call.op = "generate_all_csv_files") =>
        \A i, j \in 1..Len(engines_df) :
            engines_df[i].name = engines_df[j].name => i = j

-----------------------------------------------------------------------------
(* Properties of the shield hardpoints of a ship record *)

\* the tags attribute holds the keyword as a word of its own
HasWord(tags, word) == \E i \in 1..Len(tags) : tags[i] = word

\* the size class the folder of the macro file stands for
FolderClass(name) ==
    CASE name = "size_s" -> "s" [] name = "size_m" -> "m"
      [] name = "size_l" -> "l" [] name = "size_xl" -> "xl" [] OTHER -> "None"

\* the class a size keyword of the tags stands for, that of the folder without one
KeywordClass(tags, folder) ==
    IF HasWord(tags, "small") THEN "s"
    ELSE IF HasWord(tags, "medium") THEN "m"
    ELSE IF HasWord(tags, "extralarge") THEN "xl"
    ELSE IF HasWord(tags, "large") THEN "l"
    ELSE FolderClass(folder)

\* C22: for a ship record whose component file exists, shield_connections is
\* the number of connections whose tags contain 'shield', and shield_size_class
\* follows the size keyword of the first of them: 'small' s, 'medium' m,
\* 'large' l, 'extralarge' xl, and the size folder of the ship only when no
\* keyword is there.
C22_ShieldSizeFromTags ==
    Loaded =>
        \A d \in WalkedDirs : \A j \in 1..Len(d.files) : \A k \in 1..Len(ships_df) :
            ( /\ Emitted(d.files[j])
              /\ d.files[j].component_ref # "None"
              /\ d.files[j].component.state = "ok"
              /\ ships_df[k].ship.file =
                    FilePath(UnitsDirOf(UnitsRoot(units)), d.name, d.files[j]) ) =>
                /\ ships_df[k].ship.shield_connections = Len(ShieldConns(d.files[j].component))
                /\ ShieldConns(d.files[j].component) # <<>> =>
                      ships_df[k].ship.shield_size_class =
                          KeywordClass(ShieldConns(d.files[j].component)[1], d.name)

-----------------------------------------------------------------------------
(* extract_storage_info (data_parser.py): the cargo hold of a ship macro.    *)
(* A connection of the macro is [macro, ref]: whether it has a <macro>       *)
(* child, and that child's ref attribute (<<>>: none).  A storage file is    *)
(* [state, cargo, max, tags]: "missing", "unparsable" or "ok", whether it    *)
(* holds a <cargo> element, and that element's max and tags attributes       *)
(* ("None": absent).  The files around a ship are a function from file stems *)
(* to the three places find_storage_macro looks in, in its order.            *)

NoStorageFile == [state |-> "missing", cargo |-> FALSE, max |-> "None", tags |-> "None"]

Nowhere == <<NoStorageFile, NoStorageFile, NoStorageFile>>

\* str.lower() on a reference name
LowerName(name) == [i \in 1..Len(name) |-> IF name[i] = "Storage" THEN "storage" ELSE name[i]]

\* str.replace("ship_", "storage_")
ReplaceShip(name) ==
    [i \in 1..Len(name) |->
        IF name[i] = "ship" /\ i < Len(name) /\ name[i + 1] = "_" THEN "storage" ELSE name[i]]

\* the replacement made once, at the head of the name
ReplaceLeadingShip(name) == <<"storage">> \o Tail(name)

\* lines 250-266: [found, file], the first of the three places where a file
\* of that name exists
find_storage_macro(files, storage_ref) ==
    LET places == IF storage_ref \in DOMAIN files THEN files[storage_ref] ELSE Nowhere
    IN IF places[1].state # "missing" THEN [found |-> TRUE, file |-> places[1]]
       ELSE IF places[2].state # "missing" THEN [found |-> TRUE, file |-> places[2]]
       ELSE IF places[3].state # "missing" THEN [found |-> TRUE, file |-> places[3]]
       ELSE [found |-> FALSE, file |-> NoStorageFile]

\* lines 268-283: [max, type, raised]
parse_storage_macro(storage_file) ==
    IF storage_file.state = "unparsable" \/ ~storage_file.cargo
    THEN [max |-> 0, type |-> "None", raised |-> "None"]
    ELSE IF storage_file.max # "None" /\ ~ParseIntAttr(storage_file.max).ok
    THEN [max |-> 0, type |-> "None", raised |-> "ValueError"]
    ELSE [max |-> IF storage_file.max = "None" THEN 0 ELSE ParseIntAttr(storage_file.max).value,
          type |-> IF storage_file.tags = "None" THEN "" ELSE storage_file.tags,
          raised |-> "None"]

\* lines 223-226: the connection refers to a storage macro whose file exists
RefersToStorage(files, connection) ==
    /\ connection.macro
    /\ Contains(LowerName(connection.ref), "storage")
    /\ find_storage_macro(files, connection.ref).found

\* lines 219-231: the loop over the connections, from the i-th on
RECURSIVE FromConnections(_, _, _)
FromConnections(files, connections, i) ==
    IF i > Len(connections) THEN [max |-> 0, type |-> "None", raised |-> "None"]
    ELSE IF ~RefersToStorage(files, connections[i])
    THEN FromConnections(files, connections, i + 1)
    ELSE LET Taken(r) ==
                 IF r.raised # "None" \/ r.max > 0 THEN r
                 ELSE FromConnections(files, connections, i + 1)
         IN Taken(parse_storage_macro(find_storage_macro(files, connections[i].ref).file))

\* lines 234-246: the file named after the ship
FromShipName(files, stem, storage_name) ==
    IF ~(Len(stem) >= 2 /\ stem[1] = "ship" /\ stem[2] = "_")
    THEN [max |-> 0, type |-> "None", raised |-> "None"]
    ELSE IF ~find_storage_macro(files, storage_name).found
    THEN [max |-> 0, type |-> "None", raised |-> "None"]
    ELSE parse_storage_macro(find_storage_macro(files, storage_name).file)

\* lines 211-248: [max, type, raised]
extract_storage_info(files, stem, connections) ==
    LET Fallback(r) ==
            IF r.raised = "None" /\ r.max = 0
            THEN FromShipName(files, stem, ReplaceShip(stem))
            ELSE r
    IN Fallback(FromConnections(files, connections, 1))

MaxStorageConns == 2

StorageFile(max, tags) == [state |-> "ok", cargo |-> TRUE, max |-> max, tags |-> tags]

Here(file) == <<file, NoStorageFile, NoStorageFile>>

StorageA == <<"storage", "_", "arg", "_", "a">>

StorageB == <<"Storage", "_", "arg", "_", "b">>

\* a connection without <macro>, one whose <macro> has no ref, an engine, and
\* the two storage references
ConnectionValues ==
    { [macro |-> FALSE, ref |-> <<>>], [macro |-> TRUE, ref |-> <<>>],
      [macro |-> TRUE, ref |-> <<"engine", "_", "arg">>],
      [macro |-> TRUE, ref |-> StorageA], [macro |-> TRUE, ref |-> StorageB] }

\* a plain ship, a ship whose name holds ship_ twice, a file that is no ship
ShipStems ==
    { <<"ship", "_", "arg", "_", "fighter">>, <<"ship", "_", "arg", "_", "ship", "_", "01">>,
      <<"storage", "_", "arg", "_", "fighter">> }

\* the file of the first storage reference in every condition and place
PlacesA ==
    { Here(f) : f \in { NoStorageFile, StorageFile("5000", "container"),
                        StorageFile("0", "container"), StorageFile("abc", "container"),
                        StorageFile("None", "None"),
                        [NoStorageFile EXCEPT !.state = "ok"],
                        [NoStorageFile EXCEPT !.state = "unparsable"] } }
    \cup { <<NoStorageFile, StorageFile("5000", "liquid"), NoStorageFile>>,
           <<NoStorageFile, NoStorageFile, StorageFile("5000", "solid")>>,
           <<StorageFile("0", "container"), StorageFile("5000", "liquid"), NoStorageFile>> }

StorageTrees(stem) ==
    { (StorageA :> a) @@ (StorageB :> b) @@ (ReplaceLeadingShip(stem) :> lead)
      @@ (ReplaceShip(stem) :> all) :
        a \in PlacesA,
        b \in { Nowhere, Here(StorageFile("5000", "liquid")) },
        lead \in { Nowhere, Here(StorageFile("5000", "solid")), Here(StorageFile("0", "solid")),
                   Here([NoStorageFile EXCEPT !.state = "unparsable"]) },
        all \in { Nowhere, Here(StorageFile("5000", "condensate")) } }

InitStorage ==
    /\ InitProgram
    /\ InitNoShips
    /\ calc = NoCalc
    /\ gen = NoFull
    /\ wpn = NoWeapons
    /\ configs = [p \in ConfigPaths |-> ConfigMissing]
    /\ steamReg = "<nokey>"
    /\ sysLocale = <<"en", "US">>
    /\ fs = (TextPath(DATA_PATHS[1], BaselineId) :> Doc44)
    /\ \E stem \in ShipStems :
          \E files \in StorageTrees(stem), connections \in SeqsUpTo(ConnectionValues, MaxStorageConns) :
             sto = [done |-> FALSE, stem |-> stem, files |-> files, connections |-> connections,
                    max |-> 0, type |-> "None", raised |-> "None"]

ExtractStorageInfo ==
    /\ ~sto.done
    /\ \E r \in {extract_storage_info(sto.files, sto.stem, sto.connections)} :
          sto' = [sto EXCEPT !.done = TRUE, !.max = r.max, !.type = r.type, !.raised = r.raised]
    /\ UNCHANGED <<langvars, shipvars, calc, gen, wpn>>

NextStorage == ExtractStorageInfo

SpecStorage == InitStorage /\ [][NextStorage]_vars

\* the connections whose reference holds 'storage' and whose file, found, gives
\* a cargo max above zero
GoodConnections ==
    { i \in 1..Len(sto.connections) :
        /\ RefersToStorage(sto.files, sto.connections[i])
        /\ parse_storage_macro(find_storage_macro(sto.files, sto.connections[i].ref).file).raised = "None"
        /\ parse_storage_macro(find_storage_macro(sto.files, sto.connections[i].ref).file).max > 0 }

FirstGood == CHOOSE i \in GoodConnections : \A j \in GoodConnections : i <= j

\* C23: extract_storage_info returns the cargo max and type of the first
\* connection whose reference name contains 'storage' and whose storage file
\* is found with a cargo max above zero; without one it returns what the file
\* named after the ship gives, the name being the ship's file name with its
\* leading 'ship_' replaced by 'storage_' and nothing else replaced; when no
\* file is found it returns 0 and no type.
C23_StorageLookup ==
    (sto.done /\ sto.raised = "None") =>
        LET Same(r) == sto.max = r.max /\ sto.type = r.type
        IN IF GoodConnections # {}
           THEN Same(parse_storage_macro(
                        find_storage_macro(sto.files, sto.connections[FirstGood].ref).file))
           ELSE Same(FromShipName(sto.files, sto.stem, ReplaceLeadingShip(sto.stem)))

-----------------------------------------------------------------------------
(* Properties of the extractors of a full load *)

FullLoadReturned == gen.n > 0 /\ call.op = "generate_all_csv_files" /\ call.raised = "None"

\* the XML documents of a kind ("engines", "shields") under both data roots
DocumentCount(kind) ==
    (IF gen.props[1][kind].exists THEN Len(gen.props[1][kind].files) ELSE 0)
    + (IF gen.props[2][kind].exists THEN Len(gen.props[2][kind].files) ELSE 0)

ShipClasses == {"ship_xs", "ship_s", "ship_m", "ship_l", "ship_xl"}

\* C24: an extractor makes at most one record of one XML document, and none of
\* a document without a macro of its class: the engine table has no more
\* records than there are engine documents, the shield table no more than
\* there are shield documents, and every ship record is of a ship class and
\* no two ship records of different macros come from one file.
C24_OneRecordPerDocument ==
    FullLoadReturned =>
        /\ Len(engines_df) <= DocumentCount("engines")
        /\ Len(gen.last.shields) <= DocumentCount("shields")
        /\ \A k \in 1..Len(ships_df) : ships_df[k].ship.class \in ShipClasses
        /\ \A k, l \in 1..Len(ships_df) :
              ships_df[k].ship.file = ships_df[l].ship.file =>
                  ships_df[k].ship = ships_df[l].ship

-----------------------------------------------------------------------------
(* WeaponCSVGenerator (csv_generator.py): the weapon and turret tables.      *)
(* A macro file under a WeaponSystems folder is [dirs, name, parse, macros]: *)
(* the folders between WeaponSystems and the file, the words of the file     *)
(* name without .xml (joined by "_"), "ok" or "error", and the <macro>       *)
(* children of the root in document order.  A macro element is               *)
(*   [class, name, props, ident, name_ref, basename_ref, mk, makerrace, hull] *)
(* with name the words of the identifier (joined by "_"), the references as  *)
(* chunk sequences (<<>>: attribute absent), mk, makerrace and hull "None"   *)
(* when absent.  Of the attributes read with float() the hull stands for all, *)
(* of the texts looked up besides the name the basename.                     *)

\* the identifier words that hold a keyword inside them
KeywordInside ==
    { <<"ion", "ioncannon">>, <<"cannon", "ioncannon">>,
      <<"pulse", "pulselaser">>, <<"laser", "pulselaser">> }

\* str.lower() on a word of an identifier
LowerWord(w) == CASE w = "Beam" -> "beam" [] w = "ARG" -> "arg" [] OTHER -> w

\* pattern in name.lower(), for a pattern without underscore
InLowered(name, pattern) ==
    \E i \in 1..Len(name) :
        LowerWord(name[i]) = pattern \/ <<pattern, LowerWord(name[i])>> \in KeywordInside

\* f"_{word}_" in name.lower()
UnderscoredIn(name, word) == \E i \in 2..(Len(name) - 1) : LowerWord(name[i]) = word

\* lines 36-48: faction_map in its order
faction_map ==
    << <<"arg", "argon">>, <<"par", "paranid">>, <<"tel", "teladi">>, <<"spl", "split">>,
       <<"ter", "terran">>, <<"kha", "khaak">>, <<"xen", "xenon">>, <<"bor", "boron">>,
       <<"gen", "generic">>, <<"yak", "yakuza">>, <<"pio", "pioneer">> >>

\* lines 58-64: size_patterns in its order
size_patterns ==
    << <<"xs", "extra_small">>, <<"s", "small">>, <<"m", "medium">>, <<"l", "large">>,
       <<"xl", "extra_large">> >>

\* the loops of lines 50-54 and 66-71: the value of the first entry, from the
\* i-th on, whose key stands between underscores in the name
RECURSIVE FirstUnderscored(_, _, _)
FirstUnderscored(map, name, i) ==
    IF i > Len(map) THEN "unknown"
    ELSE IF UnderscoredIn(name, map[i][1]) THEN map[i][2]
    ELSE FirstUnderscored(map, name, i + 1)

\* lines 33-54
extract_faction_from_name(name) == FirstUnderscored(faction_map, name, 1)

\* lines 56-71
extract_size_class(name) == FirstUnderscored(size_patterns, name, 1)

\* lines 246-257: type_patterns of classify_weapon_type in its order
weapon_type_patterns ==
    << <<"beam", {"beam", "laser"}>>, <<"plasma", {"plasma"}>>,
       <<"particle", {"particle", "ion"}>>, <<"pulse", {"pulse", "burst"}>>,
       <<"mining", {"mining"}>>, <<"missile", {"missile"}>>, <<"torpedo", {"torpedo"}>>,
       <<"cannon", {"cannon"}>>, <<"railgun", {"railgun"}>>, <<"flak", {"flak"}>> >>

\* lines 270-283: type_patterns of classify_turret_type in its order
turret_type_patterns ==
    weapon_type_patterns \o
    << <<"point_defense", {"pointdefense", "pd"}>>, <<"destroyer", {"destroyer"}>> >>

\* the loops of lines 259-264 and 285-290, from the i-th category on
RECURSIVE FirstCategory(_, _, _)
FirstCategory(type_patterns, id, i) ==
    IF i > Len(type_patterns) THEN "unknown"
    ELSE IF \E pattern \in type_patterns[i][2] : InLowered(id, pattern)
    THEN type_patterns[i][1]
    ELSE FirstCategory(type_patterns, id, i + 1)

\* lines 242-264
classify_weapon_type(weapon_id) == FirstCategory(weapon_type_patterns, weapon_id, 1)

\* lines 266-290
classify_turret_type(turret_id) == FirstCategory(turret_type_patterns, turret_id, 1)

\* lines 78-87: get_text_value on TEXT_MAPPINGS
get_text_value(tbl, text_ref) ==
    IF text_ref = <<>> \/ IsEmptyMap(tbl) THEN text_ref
    ELSE LET Mapped(key) == DictGet(tbl, key, key)
         IN Mapped(IF StartsWith(text_ref, "{") /\ EndsWith(text_ref, "}")
                   THEN SubSeq(text_ref, 2, Len(text_ref) - 1)
                   ELSE text_ref)

\* int(identification.get('mk', '1')): [ok, value]
ParseMk(mk) ==
    CASE mk = "None" -> [ok |-> TRUE, value |-> 1]
      [] mk = "1" -> [ok |-> TRUE, value |-> 1]
      [] mk = "2" -> [ok |-> TRUE, value |-> 2]
      [] mk = "0" -> [ok |-> TRUE, value |-> 0]
      [] OTHER -> [ok |-> FALSE, value |-> 0]

\* lines 110 and 184: mk_level, 1 without <identification>
MkLevel(macro_elem) ==
    IF macro_elem.ident THEN ParseMk(macro_elem.mk) ELSE [ok |-> TRUE, value |-> 1]

\* the components of a data root
RootParts(root) == IF root = 1 THEN <<"data">> ELSE <<"build_scripts", "data">>

\* macro_path: the data root, assets/props/WeaponSystems, the folders, the file
MacroPath(root, file) ==
    RootParts(root) \o <<"assets", "props", "WeaponSystems">> \o file.dirs \o <<file.name>>

\* str(macro_path.relative_to(macro_path.parents[5])): [ok, value]; parents[5]
\* is an IndexError for a path of fewer than six components
RelativeToParents5(path) ==
    IF Len(path) < 6 THEN [ok |-> FALSE, value |-> <<>>]
    ELSE [ok |-> TRUE, value |-> SubSeq(path, Len(path) - 5, Len(path))]

\* root.find('macro[@class=...]'): the index of the first such child, 0 for None
RECURSIVE FindMacro(_, _, _)
FindMacro(macros, class, i) ==
    IF i > Len(macros) THEN 0
    ELSE IF macros[i].class = class THEN i
    ELSE FindMacro(macros, class, i + 1)

\* hull_elem.get('max', '0') read with float()
HullFloat(hull) == IF hull = "None" THEN [ok |-> TRUE, value |-> 0] ELSE ParseFloat(hull)

NoRecord == [ok |-> FALSE, rec |-> <<>>]

\* x or y, for strings
OrElse(x, y) == IF x # <<>> THEN x ELSE y

\* lines 99-161, for the macro element found: [ok, rec]; ok is FALSE for None
WeaponRecord(tbl, path, m) ==
    IF ~m.props THEN NoRecord
    ELSE IF ~MkLevel(m).ok \/ ~HullFloat(m.hull).ok \/ ~RelativeToParents5(path).ok
    THEN NoRecord
    ELSE [ok |-> TRUE,
          rec |-> [weapon_id |-> m.name,
                   display_name |-> OrElse(get_text_value(tbl,
                                       IF m.ident THEN m.name_ref ELSE <<>>), m.name),
                   basename |-> get_text_value(tbl, IF m.ident THEN m.basename_ref ELSE <<>>),
                   weapon_type |-> classify_weapon_type(m.name),
                   faction |-> extract_faction_from_name(m.name),
                   size_class |-> extract_size_class(m.name),
                   mk_level |-> MkLevel(m).value,
                   hull_points |-> HullFloat(m.hull).value,
                   macro_file |-> RelativeToParents5(path).value]]

\* lines 89-161: parse_weapon_macro
parse_weapon_macro(tbl, root, file) ==
    IF file.parse # "ok" \/ FindMacro(file.macros, "weapon", 1) = 0 THEN NoRecord
    ELSE WeaponRecord(tbl, MacroPath(root, file),
                      file.macros[FindMacro(file.macros, "weapon", 1)])

\* lines 173-240, for the macro element found
TurretRecord(tbl, path, m) ==
    IF ~m.props THEN NoRecord
    ELSE IF ~MkLevel(m).ok \/ ~HullFloat(m.hull).ok \/ ~RelativeToParents5(path).ok
    THEN NoRecord
    ELSE [ok |-> TRUE,
          rec |-> [turret_id |-> m.name,
                   display_name |-> OrElse(get_text_value(tbl,
                                       IF m.ident THEN m.name_ref ELSE <<>>), m.name),
                   basename |-> get_text_value(tbl, IF m.ident THEN m.basename_ref ELSE <<>>),
                   turret_type |-> classify_turret_type(m.name),
                   faction |-> IF m.ident /\ m.makerrace \notin {"None", ""}
                               THEN m.makerrace ELSE extract_faction_from_name(m.name),
                   size_class |-> extract_size_class(m.name),
                   mk_level |-> MkLevel(m).value,
                   hull_threshold |-> HullFloat(m.hull).value,
                   macro_file |-> RelativeToParents5(path).value]]

\* lines 163-240: parse_turret_macro
parse_turret_macro(tbl, root, file) ==
    IF file.parse # "ok" \/ FindMacro(file.macros, "turret", 1) = 0 THEN NoRecord
    ELSE TurretRecord(tbl, MacroPath(root, file),
                      file.macros[FindMacro(file.macros, "turret", 1)])

\* rglob("*_macro.xml") and macro_file.name.startswith(prefix + '_')
IsMacroFile(file, prefix) ==
    Len(file.name) >= 2 /\ file.name[Len(file.name)] = "macro" /\ file.name[1] = prefix

\* lines 306-323: the loop over the files of one folder, from the j-th on;
\* data is [weapons_data, turrets_data]
RECURSIVE ScanFiles(_, _, _, _, _)
ScanFiles(data, tbl, root, files, j) ==
    IF j > Len(files) THEN data
    ELSE LET Added(w, t) ==
                 [weapons_data |-> IF w.ok THEN Append(data.weapons_data, w.rec)
                                   ELSE data.weapons_data,
                  turrets_data |-> IF t.ok THEN Append(data.turrets_data, t.rec)
                                   ELSE data.turrets_data]
         IN ScanFiles(Added(IF IsMacroFile(files[j], "weapon")
                            THEN parse_weapon_macro(tbl, root, files[j]) ELSE NoRecord,
                            IF IsMacroFile(files[j], "turret")
                            THEN parse_turret_macro(tbl, root, files[j]) ELSE NoRecord),
                      tbl, root, files, j + 1)

\* lines 299-323: the loop over weapon_systems_paths, from the i-th on
RECURSIVE ScanPaths(_, _, _, _, _)
ScanPaths(data, tbl, tree, paths, i) ==
    IF i > Len(paths) THEN data
    ELSE IF ~tree[paths[i]].exists THEN ScanPaths(data, tbl, tree, paths, i + 1)
    ELSE ScanPaths(ScanFiles(data, tbl, paths[i], tree[paths[i]].files, 1),
                   tbl, tree, paths, i + 1)

\* lines 292-325: scan_weapon_systems, [weapons_data, turrets_data]
scan_weapon_systems(data, tbl, tree, paths) == ScanPaths(data, tbl, tree, paths, 1)

\* get_all_data_paths("assets/props/WeaponSystems"): the data roots that have it
RECURSIVE WeaponSystemsFrom(_, _)
WeaponSystemsFrom(tree, i) ==
    IF i > Len(DATA_PATHS) THEN <<>>
    ELSE (IF tree[i].exists THEN <<i>> ELSE <<>>) \o WeaponSystemsFrom(tree, i + 1)

MaxScans == 2

BaseWeapon ==
    [class |-> "weapon", name |-> <<"weapon", "arg", "s", "beam", "01", "mk1">>,
     props |-> TRUE, ident |-> TRUE, name_ref |-> TextKey("20101", "1"),
     basename_ref |-> TextKey("20101", "11001"), mk |-> "1", makerrace |-> "None",
     hull |-> "1200"]

BaseTurret ==
    [BaseWeapon EXCEPT !.class = "turret", !.name = <<"turret", "arg", "m", "flak", "01", "mk1">>,
                       !.makerrace = "argon"]

\* the mk attribute, <identification>, <properties>, the hull and the name
\* reference in every condition
WeaponMacros ==
    { [BaseWeapon EXCEPT !.mk = mk] : mk \in {"None", "1", "2", "0", "abc"} }
    \cup { [BaseWeapon EXCEPT !.ident = FALSE], [BaseWeapon EXCEPT !.props = FALSE],
           [BaseWeapon EXCEPT !.hull = "abc"], [BaseWeapon EXCEPT !.hull = "None"],
           [BaseWeapon EXCEPT !.class = "turret"] }
    \cup { [BaseWeapon EXCEPT !.name_ref = r] :
             r \in { <<>>, TextKey("20101", "99"), TextKey("20111", "8"), <<"Plain">>, <<"{">> } }

\* identifiers: a flak weapon, keywords inside one word, no keyword, upper
\* case, no name attribute
WeaponNames ==
    { <<"weapon", "gen", "m", "flak", "01", "mk1">>, <<"weapon", "par", "l", "ioncannon", "01">>,
      <<"weapon", "tel", "xl", "pulselaser", "02", "mk2">>, <<"weapon", "xen", "xs", "spike">>,
      <<"weapon", "ARG", "s", "Beam", "01">>, <<"weapon", "kha", "plasma">>,
      <<"weapon", "gen", "s", "mining", "01">>, <<"weapon", "spl", "m", "railgun">>, <<>> }

TurretMacros ==
    { [BaseTurret EXCEPT !.mk = mk] : mk \in {"None", "2", "abc"} }
    \cup { [BaseTurret EXCEPT !.makerrace = r] : r \in {"None", ""} }
    \cup { [BaseTurret EXCEPT !.name = n, !.makerrace = "None"] :
             n \in { <<"turret", "ter", "l", "pd", "01">>, <<"turret", "bor", "l", "destroyer">>,
                     <<"turret", "par", "m", "pointdefense", "01">>,
                     <<"turret", "arg", "m", "ioncannon", "01">>,
                     <<"turret", "yak", "m", "dumbfire">> } }
    \cup { [BaseTurret EXCEPT !.ident = FALSE], [BaseTurret EXCEPT !.class = "weapon"] }

MacroFile(name, macros) ==
    [dirs |-> <<"energy", "macros">>, name |-> name, parse |-> "ok", macros |-> macros]

WeaponFileName == <<"weapon", "arg", "s", "beam", "01", "mk1", "macro">>

TurretFileName == <<"turret", "arg", "m", "flak", "01", "mk1", "macro">>

\* one macro per file; files that are skipped or fail; files with two macros
WeaponSystemsFiles ==
    { MacroFile(WeaponFileName, <<m>>) : m \in WeaponMacros }
    \cup { MacroFile(WeaponFileName, <<[BaseWeapon EXCEPT !.name = n]>>) : n \in WeaponNames }
    \cup { MacroFile(TurretFileName, <<m>>) : m \in TurretMacros }
    \cup { [MacroFile(WeaponFileName, <<BaseWeapon>>) EXCEPT !.parse = "error"],
           [MacroFile(WeaponFileName, <<BaseWeapon>>) EXCEPT !.dirs = <<>>],
           [MacroFile(TurretFileName, <<BaseTurret>>) EXCEPT !.dirs = <<"macros">>],
           MacroFile(<<"weapon", "arg", "s", "beam", "01">>, <<BaseWeapon>>),
           MacroFile(<<"bullet", "arg", "s", "beam", "macro">>, <<BaseWeapon>>),
           MacroFile(TurretFileName, <<BaseWeapon>>),
           MacroFile(WeaponFileName, <<>>),
           MacroFile(WeaponFileName, <<BaseTurret, [BaseWeapon EXCEPT !.mk = "2"], BaseWeapon>>),
           MacroFile(TurretFileName, <<BaseTurret, [BaseTurret EXCEPT !.mk = "2"]>>) }

\* one file under the first data root; a weapon and a turret; the second data
\* root alone and with the first; no WeaponSystems folder at all
WeaponSystemsTrees ==
    { <<Folder(<<f>>), NoFolder>> : f \in WeaponSystemsFiles }
    \cup { <<Folder(<<MacroFile(WeaponFileName, <<w>>), MacroFile(TurretFileName, <<t>>)>>),
             NoFolder>> :
             w \in {BaseWeapon, [BaseWeapon EXCEPT !.mk = "abc"]},
             t \in {BaseTurret, [BaseTurret EXCEPT !.mk = "abc"]} }
    \cup { <<NoFolder, Folder(<<[MacroFile(WeaponFileName, <<BaseWeapon>>) EXCEPT !.dirs = <<>>]>>)>>,
           <<Folder(<<MacroFile(WeaponFileName, <<BaseWeapon>>)>>),
             Folder(<<MacroFile(WeaponFileName, <<BaseWeapon>>)>>)>>,
           <<Folder(<<>>), NoFolder>>,
           <<NoFolder, NoFolder>> }

InitWeapons ==
    /\ InitProgram
    /\ InitNoShips
    /\ calc = NoCalc
    /\ gen = NoFull
    /\ sto = NoStorage
    /\ configs = [p \in ConfigPaths |-> ConfigMissing]
    /\ steamReg = "<nokey>"
    /\ sysLocale = <<"en", "US">>
    /\ fs = (TextPath(DATA_PATHS[1], BaselineId) :> DocNames)
           @@ (TextPath(DATA_PATHS[2], BaselineId) :> FileMissing)
    /\ \E tree \in WeaponSystemsTrees : wpn = [NoWeapons EXCEPT !.tree = tree]

\* WeaponCSVGenerator()
NewGenerator ==
    /\ wpn' = [wpn EXCEPT !.made = TRUE, !.paths = WeaponSystemsFrom(wpn.tree, 1),
                          !.weapons_data = <<>>, !.turrets_data = <<>>,
                          !.scanned = FALSE, !.old = [w |-> 0, t |-> 0]]
    /\ UNCHANGED <<langvars, shipvars, calc, gen, sto>>

\* generator.scan_weapon_systems()
ScanWeaponSystems ==
    /\ wpn.made
    /\ wpn.scans < MaxScans
    /\ \E r \in {scan_weapon_systems([weapons_data |-> wpn.weapons_data,
                                      turrets_data |-> wpn.turrets_data],
                                     table, wpn.tree, wpn.paths)} :
          wpn' = [wpn EXCEPT !.weapons_data = r.weapons_data,
                             !.turrets_data = r.turrets_data,
                             !.scans = @ + 1,
                             !.scanned = TRUE,
                             !.tbl = table,
                             !.old = [w |-> Len(wpn.weapons_data),
                                      t |-> Len(wpn.turrets_data)]]
    /\ UNCHANGED <<langvars, shipvars, calc, gen, sto>>

NextWeapons ==
    \/ LoadTextMappings
    \/ NewGenerator
    \/ ScanWeaponSystems

SpecWeapons == InitWeapons /\ [][NextWeapons]_vars

-----------------------------------------------------------------------------
(* Properties of the weapon and turret tables *)

\* the files under the WeaponSystems folders the last scan read, as
\* <<data root, file>>
ScannedFiles ==
    IF ~wpn.scanned THEN {}
    ELSE UNION { { <<wpn.paths[i], wpn.tree[wpn.paths[i]].files[j]>> :
                     j \in 1..Len(wpn.tree[wpn.paths[i]].files) } :
                 i \in 1..Len(wpn.paths) }

\* the same file with no mk attribute on its macros
WithoutMk(file) ==
    [file EXCEPT !.macros = [n \in 1..Len(file.macros) |-> [file.macros[n] EXCEPT !.mk = "None"]]]

\* the macro element of its kind a file's record is made of
MacroOf(file, kind) == file.macros[FindMacro(file.macros, kind, 1)]

\* the mk_level specified: the attribute when it parses, else 1
SpecifiedMk(m) == IF m.ident /\ ParseMk(m.mk).ok THEN ParseMk(m.mk).value ELSE 1

\* the records the last scan added
NewWeapons == { wpn.weapons_data[k] : k \in (wpn.old.w + 1)..Len(wpn.weapons_data) }

NewTurrets == { wpn.turrets_data[k] : k \in (wpn.old.t + 1)..Len(wpn.turrets_data) }

\* C25: every weapon and turret record has an integer mk_level >= 1, the value
\* of the mk attribute when it parses and 1 when it is absent or does not
\* parse; a macro that gives a record without an mk attribute gives one with
\* any mk attribute.
C25_MkLevelDefault ==
    /\ \A r \in NewWeapons \cup NewTurrets : r.mk_level >= 1
    /\ \A s \in ScannedFiles :
          (IsMacroFile(s[2], "weapon") /\ parse_weapon_macro(wpn.tbl, s[1], WithoutMk(s[2])).ok) =>
              \E r \in NewWeapons :
                  /\ r.weapon_id = MacroOf(s[2], "weapon").name
                  /\ r.mk_level = SpecifiedMk(MacroOf(s[2], "weapon"))
    /\ \A s \in ScannedFiles :
          (IsMacroFile(s[2], "turret") /\ parse_turret_macro(wpn.tbl, s[1], WithoutMk(s[2])).ok) =>
              \E r \in NewTurrets :
                  /\ r.turret_id = MacroOf(s[2], "turret").name
                  /\ r.mk_level = SpecifiedMk(MacroOf(s[2], "turret"))

\* the keyword table without the keyword that is for turrets only
WithoutFlak == SelectSeq(weapon_type_patterns, LAMBDA e : e[1] # "flak")

\* C26: the type of a weapon or turret record is the category of the first
\* keyword of the table, in table order, that is a substring of the lower-cased
\* identifier, and 'unknown' without one; 'flak' is a keyword for turrets only,
\* and no weapon record has the type flak.
C26_TypeByFirstKeyword ==
    /\ \A r \in NewWeapons :
          /\ r.weapon_type # "flak"
          /\ r.weapon_type = FirstCategory(WithoutFlak, r.weapon_id, 1)
    /\ \A r \in NewTurrets :
          r.turret_type = FirstCategory(turret_type_patterns, r.turret_id, 1)

\* C30: a weapon or turret macro whose name reference is a key of the loaded
\* table gets the mapped string as display_name, and one whose reference is
\* '{page,id}' without an entry keeps the reference as it is.
C30_DisplayNameFromTable ==
    /\ \A s \in ScannedFiles :
          ( /\ IsMacroFile(s[2], "weapon")
            /\ parse_weapon_macro(wpn.tbl, s[1], s[2]).ok
            /\ MacroOf(s[2], "weapon").ident
            /\ MacroOf(s[2], "weapon").name_ref # <<>>
            /\ ~IsEmptyMap(wpn.tbl) ) =>
              \E r \in NewWeapons :
                  /\ r.weapon_id = MacroOf(s[2], "weapon").name
                  /\ r.display_name = OrElse(DictGet(wpn.tbl, MacroOf(s[2], "weapon").name_ref,
                                                     MacroOf(s[2], "weapon").name_ref),
                                             r.weapon_id)
    /\ \A s \in ScannedFiles :
          ( /\ IsMacroFile(s[2], "turret")
            /\ parse_turret_macro(wpn.tbl, s[1], s[2]).ok
            /\ MacroOf(s[2], "turret").ident
            /\ MacroOf(s[2], "turret").name_ref # <<>>
            /\ ~IsEmptyMap(wpn.tbl) ) =>
              \E r \in NewTurrets :
                  /\ r.turret_id = MacroOf(s[2], "turret").name
                  /\ r.display_name = OrElse(DictGet(wpn.tbl, MacroOf(s[2], "turret").name_ref,
                                                     MacroOf(s[2], "turret").name_ref),
                                             r.turret_id)

-----------------------------------------------------------------------------
(* Properties of the merge of the ship table with the engine table *)

\* the ship records the loop of load_ship_data makes of the units tree, in
\* its order, before the merge
ExtractedShips ==
    IF UnitsRoot(units) = 0 THEN <<>>
    ELSE LoadDirs(<<>>, UnitsDirOf(UnitsRoot(units)), units[UnitsRoot(units)].dirs, 1,
                  Txt, Env).ships

\* C27: the table load_ship_data returns has exactly one row for every ship
\* record the extraction made, in the same order: the merge with the engine
\* table adds no row, repeats none and drops none, whatever the engine table
\* holds.
C27_MergeKeepsShipRows ==
    Loaded =>
        /\ Len(ships_df) = Len(ExtractedShips)
        /\ \A k \in 1..Len(ships_df) :
              k <= Len(ExtractedShips) => ships_df[k].ship.file = ExtractedShips[k].file

-----------------------------------------------------------------------------
(* Properties of the language selection *)

\* C28: in every state reached by calls of get_language_id, set_user_override
\* and clear_user_override in any order, an override that is set and an id
\* that is cached are the same id.
C28_CacheAgreesWithOverride ==
    (override # NoneId /\ cached # NoneId) => cached = override

\* get_language_id has just filled the cache under an override
C28_Witness ==
    /\ call.op = "get_language_id"
    /\ pre.cached = NoneId
    /\ override = GermanId
    /\ cached = GermanId

\* C29: a set_user_override call with an id that is no language raises
\* ValueError and leaves the override and the cached id as they were, and a
\* get_language_id call that follows it returns what it would have returned
\* before it.
C29_InvalidOverrideChangesNothing ==
    [][ /\ (call'.op = "set_user_override" /\ call'.raised = "ValueError") =>
              (override' = override /\ cached' = cached)
        /\ (call'.op = "set_user_override" /\ call'.arg \notin Langs) =>
              call'.raised = "ValueError"
        /\ (call.op = "set_user_override" /\ call.raised = "ValueError"
              /\ call'.op = "get_language_id") =>
              call'.ret = get_language_id(pre.cached, pre.override, configs, steamReg,
                                          sysLocale, call'.arg).ret ]_vars

\* the call was refused while an override was set and an id cached
C29_Witness ==
    /\ call.op = "set_user_override"
    /\ call.raised = "ValueError"
    /\ override # NoneId
    /\ cached # NoneId

=============================================================================
